---- MODULE Spec2Model ----
(***************************************************************************)
(* Wafer / lens defect detection (vetrivln/WaferDefectDetection).          *)
(*                                                                         *)
(* The model covers the image pipeline of defect_processing.cpp            *)
(* (extract_lens_mask, correct_illumination, detect_defects,               *)
(* analyze_defects) and the form of include/UI.h that drives it            *)
(* (btn_load_click, btn_analyze_click and the two numeric controls).       *)
(*                                                                         *)
(* A cv::Mat is a function from the pixels of a Rows x Cols grid to        *)
(* 0..255.  The OpenCV calls are modelled by what they compute on such a   *)
(* grid: morphology with the elliptical structuring elements and the       *)
(* default border (border pixels never win the min / max), binary          *)
(* threshold, CLAHE with an 8 x 8 tile grid (on a grid of at most 8 x 8    *)
(* pixels every tile is one pixel), border following of the outer          *)
(* contours, polygon area, bounding rectangle and moments.  Floating-point *)
(* values are kept as exact rationals (numerator / denominator) or as      *)
(* fixed-point integers; every comparison with a float constant is made on *)
(* the exact value.                                                        *)
(***************************************************************************)
EXTENDS Integers, Sequences, FiniteSets, TLC

VARIABLES
    has_image_,         \* bool has_image_
    btn_analyze_enabled,\* btn_analyze_->Enabled
    stored_gray_,       \* cv::Mat* stored_gray_       ({} is nullptr, {m} is new cv::Mat(m))
    stored_mask_,       \* cv::Mat* stored_mask_
    stored_corrected_,  \* cv::Mat* stored_corrected_
    stored_defects_,    \* std::vector<Defect>* stored_defects_
    nud_blur_,          \* nud_blur_->Value
    nud_threshold_,     \* nud_threshold_->Value
    blur_size,          \* kernel extent the last correct_illumination call blurred with
    defect_mask,        \* local defect_mask of the last detect_defects call
    contours,           \* local contours of the last analyze_defects call
    lens_pixels,        \* local lens_pixels of the last verdict computation
    defect_pixels,      \* local defect_pixels of the last verdict computation
    ratio,              \* local ratio of the last verdict computation
    pass,               \* local pass of the last verdict computation
    lbl_verdict_,       \* lbl_verdict_->Text and ->ForeColor
    flp_defects_,       \* Tag values of the cards in flp_defects_->Controls
    morph_mask,         \* local mask of extract_lens_mask after the close and the open
    divided,            \* local corrected of correct_illumination after cv::divide
    stored_display_,    \* cv::Mat* stored_display_
    pb_original_,       \* pb_original_->Image
    pb_analyzed_,       \* pb_analyzed_->Image
    pb_zoom_,           \* pb_zoom_->Image
    lbl_defect_info_,   \* lbl_defect_info_->Text
    pc,                 \* the stage of btn_analyze_click that returned last
    dialog_result,      \* what dlg_->ShowDialog () returned in btn_load_click
    load_img,           \* local img of btn_load_click
    corrected_size,     \* stored_corrected_->cols and ->rows as select_defect reads them
    d_center,           \* d.center as select_defect and populate_defect_list read it
    crop,               \* cv::Rect (x, y, w, h) of select_defect
    thumb,              \* cv::Rect (tx, ty, tw, th) of populate_defect_list
    me,                 \* me->X and me->Y of pb_analyzed_click
    select_idx          \* the argument of the last select_defect call

vars == << has_image_, btn_analyze_enabled, stored_gray_, stored_mask_,
           stored_corrected_, stored_defects_, nud_blur_, nud_threshold_,
           blur_size, defect_mask, contours, lens_pixels, defect_pixels,
           ratio, pass, lbl_verdict_, flp_defects_, morph_mask, divided,
           stored_display_, pb_original_, pb_analyzed_, pb_zoom_,
           lbl_defect_info_, pc, dialog_result, load_img, corrected_size,
           d_center, crop, thumb, me, select_idx >>

\* the pictures and the info label of the form
view == << stored_display_, pb_original_, pb_analyzed_, pb_zoom_,
           lbl_defect_info_ >>

\* the locals of the handlers that only the handlers taken alone expose
handler_locals == << pc, dialog_result, load_img, corrected_size, d_center,
                     crop, thumb, me, select_idx >>

\* the locals that only the stages taken alone expose
stage_locals == << morph_mask, divided, handler_locals >>

----------------------------------------------------------------------------
(* Bounds of the model.                                                    *)

Rows == 4
Cols == 4
MaxFeature == 2        \* largest side of the feature of an input image
MaxBlur == 2           \* largest value of the blur control on the form
MaxBlurSize == 5       \* largest blur size given to correct_illumination alone
MaxSide == 20          \* largest side of a contour given to the classifier
MaxSecond == 3         \* largest side of the second contour of a list
MaxLens == 4           \* lens pixel counts given to the verdict: up to MaxLens * 200000 + 1
MaxDefect == 4         \* largest defect pixel count given to the verdict
MaxImage == 160        \* largest side of a corrected image given to the crops

----------------------------------------------------------------------------
(* Pointers and rasters.                                                   *)

NullPtr == {}
New(v) == {v}
Deref(p) == CHOOSE v \in p : TRUE

Pix == (0 .. Rows - 1) \X (0 .. Cols - 1)

Abs(n) == IF n < 0 THEN -n ELSE n

SetMin(S) == CHOOSE m \in S : \A n \in S : m <= n
SetMax(S) == CHOOSE m \in S : \A n \in S : m >= n

\* an empty cv::Mat: a raster that is not there, because it is not computed
\* yet or because the OpenCV call that makes it threw
NoMat == << >>

\* a raster held by value: its pixels are computed once, when it is made
Mat(f) == IF f = NoMat THEN NoMat ELSE f

Zeros == Mat([p \in Pix |-> 0])

\* the pictures and the info label after the constructor
NoView ==
    /\ stored_display_ = NullPtr
    /\ pb_original_ = NullPtr
    /\ pb_analyzed_ = NullPtr
    /\ pb_zoom_ = NullPtr
    /\ lbl_defect_info_ = [text |-> "Click a defect to inspect it here"]

\* no handler has run
NoLocals ==
    /\ pc = "idle"
    /\ dialog_result = "None"
    /\ load_img = NoMat
    /\ corrected_size = [cols |-> 0, rows |-> 0]
    /\ d_center = [xnum |-> 0, ynum |-> 0, den |-> 1]
    /\ crop = [x |-> 0, y |-> 0, width |-> 0, height |-> 0]
    /\ thumb = [x |-> 0, y |-> 0, width |-> 0, height |-> 0]
    /\ me = [X |-> 0, Y |-> 0]
    /\ select_idx = 0

countNonZero(m) == Cardinality({p \in Pix : m[p] # 0})

----------------------------------------------------------------------------
(* cv::getStructuringElement(cv::MORPH_ELLIPSE, {k, k}): row dy of the     *)
(* element holds the columns |dx| <= round(sqrt(r*r - dy*dy)), r = k / 2.  *)

EllipseHalfWidth(r, dy) ==
    LET n == r * r - dy * dy
    IN  CHOOSE d \in 0 .. r :
            \/ d = 0 /\ n = 0
            \/ d * d - d < n /\ n <= d * d + d

InEllipse(k, dy, dx) ==
    LET r == k \div 2
    IN  /\ Abs(dy) <= r
        /\ Abs(dx) <= EllipseHalfWidth(r, Abs(dy))

\* the pixels of the image under the element anchored at p
Under(k, p) == {q \in Pix : InEllipse(k, q[1] - p[1], q[2] - p[2])}

LensKernel == 15
TopHatKernel == 7
NoiseKernel == 3

Under15 == Mat([p \in Pix |-> Under(LensKernel, p)])
Under7 == Mat([p \in Pix |-> Under(TopHatKernel, p)])
Under3 == Mat([p \in Pix |-> Under(NoiseKernel, p)])

\* cv::erode / cv::dilate with the default border value: pixels outside the
\* image never decide the minimum / maximum
Erode(m, under) == Mat([p \in Pix |-> SetMin({m[q] : q \in under[p]})])
Dilate(m, under) == Mat([p \in Pix |-> SetMax({m[q] : q \in under[p]})])

MorphOpen(m, under) == Dilate(Erode(m, under), under)
MorphClose(m, under) == Erode(Dilate(m, under), under)
MorphTopHat(m, under) ==
    LET opened == MorphOpen(m, under)
    IN  Mat([p \in Pix |-> m[p] - opened[p]])

\* cv::THRESH_BINARY with the threshold first clamped to the range of a pixel
ThresholdBinaryClamped(m, thresh) ==
    LET t == IF thresh < 0 THEN 0 ELSE IF thresh > 255 THEN 255 ELSE thresh
    IN  Mat([p \in Pix |-> IF m[p] > t THEN 255 ELSE 0])

\* cv::THRESH_BINARY_INV, the inverse of the flag the code passes
ThresholdBinaryInv(m, thresh) ==
    Mat([p \in Pix |-> IF m[p] > thresh THEN 0 ELSE 255])

\* cv::threshold(src, dst, thresh, 255, cv::THRESH_BINARY)
ThresholdBinary(m, thresh) ==
    Mat([p \in Pix |-> IF m[p] > thresh THEN 255 ELSE 0])

\* cv::bitwise_and of two rasters whose pixels are 0 or 255
bitwise_and(a, b) ==
    Mat([p \in Pix |-> IF a[p] # 0 /\ b[p] # 0 THEN 255 ELSE 0])

----------------------------------------------------------------------------
(* cv::findContours(m, contours, cv::RETR_EXTERNAL, cv::CHAIN_APPROX_SIMPLE)  *)
(* A pixel is <<row, column>>; a contour point is [x |-> column, y |-> row].  *)

Foreground(m) == {p \in Pix : m[p] # 0}

RasterBefore(p, q) == p[1] < q[1] \/ (p[1] = q[1] /\ p[2] < q[2])
RasterFirst(S) == CHOOSE p \in S : \A q \in S : p = q \/ RasterBefore(p, q)

Adjacent8(p, q) == p # q /\ Abs(p[1] - q[1]) <= 1 /\ Abs(p[2] - q[2]) <= 1
Adjacent4(p, q) == Abs(p[1] - q[1]) + Abs(p[2] - q[2]) = 1

OnFrame(p) == p[1] = 0 \/ p[1] = Rows - 1 \/ p[2] = 0 \/ p[2] = Cols - 1

\* the 8-connected component of S that contains the pixels of seed
RECURSIVE Grow8(_, _)
Grow8(seed, S) ==
    LET more == {q \in S \ seed : \E p \in seed : Adjacent8(p, q)}
    IN  IF more = {} THEN seed ELSE Grow8(seed \cup more, S)

RECURSIVE Grow4(_, _)
Grow4(seed, S) ==
    LET more == {q \in S \ seed : \E p \in seed : Adjacent4(p, q)}
    IN  IF more = {} THEN seed ELSE Grow4(seed \cup more, S)

\* the background that is 4-connected to the zero border around the image
OutsideBackground(m) ==
    LET bg == Pix \ Foreground(m)
    IN  Grow4({p \in bg : OnFrame(p)}, bg)

\* RETR_EXTERNAL: a component is reported unless a hole of another
\* component encloses it
IsExternal(m, comp) ==
    \E p \in comp :
        \/ OnFrame(p)
        \/ \E q \in OutsideBackground(m) : Adjacent4(p, q)

\* Freeman codes of the border follower: 0 = east, then counter-clockwise
CodeDelta(s) ==
    CASE s = 0 -> << 0,  1>>
      [] s = 1 -> <<-1,  1>>
      [] s = 2 -> <<-1,  0>>
      [] s = 3 -> <<-1, -1>>
      [] s = 4 -> << 0, -1>>
      [] s = 5 -> << 1, -1>>
      [] s = 6 -> << 1,  0>>
      [] s = 7 -> << 1,  1>>

Step(p, s) == <<p[1] + CodeDelta(s)[1], p[2] + CodeDelta(s)[2]>>

PointOf(p) == [x |-> p[2], y |-> p[1]]

\* the first code, searching clockwise from west, that leads from the start
\* pixel to a foreground pixel; 4 when the pixel is isolated
RECURSIVE FirstClockwise(_, _, _)
FirstClockwise(F, i0, s) ==
    LET s1 == (s + 7) % 8
    IN  IF s1 = 4 \/ Step(i0, s1) \in F THEN s1 ELSE FirstClockwise(F, i0, s1)

\* the next code, searching counter-clockwise after s, that leads from i3 to
\* a foreground pixel
RECURSIVE NextCounterClockwise(_, _, _)
NextCounterClockwise(F, i3, s) ==
    LET s1 == (s + 1) % 8
    IN  IF Step(i3, s1) \in F THEN s1 ELSE NextCounterClockwise(F, i3, s1)

\* the border-following loop; CHAIN_APPROX_SIMPLE keeps a point only where
\* the direction changes
RECURSIVE FollowBorder(_, _, _, _, _, _, _)
FollowBorder(F, i0, i1, i3, s, prev_s, pts) ==
    LET s4 == NextCounterClockwise(F, i3, s)
        i4 == Step(i3, s4)
        out == IF s4 # prev_s THEN Append(pts, PointOf(i3)) ELSE pts
    IN  IF i4 = i0 /\ i3 = i1
        THEN out
        ELSE FollowBorder(F, i0, i1, i4, (s4 + 4) % 8, s4, out)

FetchContour(F, i0) ==
    LET s == FirstClockwise(F, i0, 4)
    IN  IF s = 4
        THEN << PointOf(i0) >>
        ELSE FollowBorder(F, i0, Step(i0, s), i0, s, (s + 4) % 8, << >>)

\* the externally bordered components in the order of the raster scan that
\* discovers them
RECURSIVE ComponentsOf(_, _)
ComponentsOf(m, rest) ==
    IF rest = {}
    THEN << >>
    ELSE LET comp == Grow8({RasterFirst(rest)}, rest)
             tail == ComponentsOf(m, rest \ comp)
         IN  IF IsExternal(m, comp) THEN << comp >> \o tail ELSE tail

Components(m) == ComponentsOf(m, Foreground(m))

findContours(m) ==
    LET comps == Components(m)
    IN  [i \in 1 .. Len(comps) |->
            FetchContour(Foreground(m), RasterFirst(comps[i]))]

\* cv::drawContours(zeros, contours, idx, 255, cv::FILLED) for the contours
\* of m: the pixels that the closed border of component idx encloses
drawContoursFilled(m, idx) ==
    LET comp == Components(m)[idx]
        rest == Pix \ comp
        outside == Grow4({p \in rest : OnFrame(p)}, rest)
    IN  Mat([p \in Pix |-> IF p \in outside THEN 0 ELSE 255])

----------------------------------------------------------------------------
(* Contour geometry: cv::contourArea, cv::boundingRect, cv::moments.       *)

PrevIndex(c, i) == IF i = 1 THEN Len(c) ELSE i - 1

RECURSIVE SeqSum(_)
SeqSum(q) == IF q = << >> THEN 0 ELSE Head(q) + SeqSum(Tail(q))

CrossTerm(a, b) == a.x * b.y - a.y * b.x
MomentXTerm(a, b) == CrossTerm(a, b) * (a.x + b.x)
MomentYTerm(a, b) == CrossTerm(a, b) * (a.y + b.y)

\* twice the signed polygon area (a00 before the factor 0.5): the sum of
\* the cross products of each point with its predecessor around the polygon
SignedArea2(c) ==
    SeqSum([i \in 1 .. Len(c) |-> CrossTerm(c[PrevIndex(c, i)], c[i])])

\* a10 and a01 before the factor 1 / 6
MomentXSum(c) ==
    SeqSum([i \in 1 .. Len(c) |-> MomentXTerm(c[PrevIndex(c, i)], c[i])])

MomentYSum(c) ==
    SeqSum([i \in 1 .. Len(c) |-> MomentYTerm(c[PrevIndex(c, i)], c[i])])

\* the area taken as the number of pixels of the bounding rectangle, doubled
boundingArea2(c) ==
    LET xs == {c[i].x : i \in 1 .. Len(c)}
        ys == {c[i].y : i \in 1 .. Len(c)}
    IN  2 * (SetMax(xs) - SetMin(xs) + 1) * (SetMax(ys) - SetMin(ys) + 1)

\* twice cv::contourArea(c), which is fabs of the signed area
contourArea2(c) == Abs(SignedArea2(c))

boundingRect(c) ==
    LET xs == {c[i].x : i \in 1 .. Len(c)}
        ys == {c[i].y : i \in 1 .. Len(c)}
    IN  [x |-> SetMin(xs), y |-> SetMin(ys),
         width |-> SetMax(xs) - SetMin(xs) + 1,
         height |-> SetMax(ys) - SetMin(ys) + 1]

\* cv::moments(c): m00 = |a00| / 2, m10 = +-a10 / 6, m01 = +-a01 / 6, all 0
\* when a00 is 0; kept as 6 * m10, 6 * m01 and 6 * m00
moments(c) ==
    LET a00 == SignedArea2(c)
        sgn == IF a00 < 0 THEN -1 ELSE 1
    IN  IF a00 = 0
        THEN [m00x6 |-> 0, m10x6 |-> 0, m01x6 |-> 0]
        ELSE [m00x6 |-> 3 * sgn * a00,
              m10x6 |-> sgn * MomentXSum(c),
              m01x6 |-> sgn * MomentYSum(c)]

----------------------------------------------------------------------------
(* extract_lens_mask                                                       *)

LensThreshold == 8

\* the loop with the test written a >= max_area
RECURSIVE LargestFromLast(_, _, _, _)
LargestFromLast(cs, i, largest, max_area2) ==
    IF i > Len(cs) THEN largest
    ELSE LET a2 == contourArea2(cs[i])
         IN  IF a2 >= max_area2
             THEN LargestFromLast(cs, i + 1, i, a2)
             ELSE LargestFromLast(cs, i + 1, largest, max_area2)

\* the loop over the contours: index of the first contour of largest area
RECURSIVE LargestFrom(_, _, _, _)
LargestFrom(cs, i, largest, max_area2) ==
    IF i > Len(cs) THEN largest
    ELSE LET a2 == contourArea2(cs[i])
         IN  IF a2 > max_area2
             THEN LargestFrom(cs, i + 1, i, a2)
             ELSE LargestFrom(cs, i + 1, largest, max_area2)

\* cv::drawContours(clean_mask, contours, -1, 255, cv::FILLED): every contour
clean_mask_all(opened) ==
    LET cs == findContours(opened)
        filled == [i \in 1 .. Len(cs) |-> drawContoursFilled(opened, i)]
    IN  Mat([p \in Pix |->
            IF \E i \in 1 .. Len(cs) : filled[i][p] # 0 THEN 255 ELSE 0])

\* lines 13-36: clean_mask, the filled largest contour of the mask that the
\* close and the open have cleaned
clean_mask(opened) ==
    LET cs == findContours(opened)
    IN  IF cs = << >>
        THEN Zeros
        ELSE drawContoursFilled(opened, LargestFrom(cs, 1, 1, 0))

extract_lens_mask(gray) ==
    LET mask == ThresholdBinary(gray, LensThreshold)
        closed == MorphClose(mask, Under15)
        opened == MorphOpen(closed, Under15)
    IN  clean_mask(opened)

----------------------------------------------------------------------------
(* correct_illumination                                                    *)

\* cv::getGaussianKernel(k, 0) for k <= 7 is a fixed table of dyadic weights:
\* [1], [1 2 1]/4, [1 4 6 4 1]/16, [2 7 14 18 14 7 2]/64
GaussianTable(k) ==
    CASE k = 1 -> << 1 >>
      [] k = 3 -> << 1, 2, 1 >>
      [] k = 5 -> << 1, 4, 6, 4, 1 >>
      [] k = 7 -> << 2, 7, 14, 18, 14, 7, 2 >>

GaussianDenominator(k) == SeqSum(GaussianTable(k))

\* cv::borderInterpolate(i, n, cv::BORDER_REFLECT_101)
RECURSIVE Reflect101(_, _)
Reflect101(i, n) ==
    IF n = 1 THEN 0
    ELSE IF i < 0 THEN Reflect101(-i, n)
    ELSE IF i >= n THEN Reflect101(2 * (n - 1) - i, n)
    ELSE i

\* cv::GaussianBlur(src, dst, {k, k}, 0): rejects a kernel extent that is
\* not positive and odd; the result is the exact weighted sum, to be divided
\* by GaussianDenominator(k)^2
GaussianBlur(src, k) ==
    IF k <= 0 \/ k % 2 = 0
    THEN NoMat
    ELSE LET w == GaussianTable(k)
             r == k \div 2
             row == Mat([p \in Pix |->
                       SeqSum([j \in 1 .. k |->
                           w[j] * src[<<p[1], Reflect101(p[2] + j - 1 - r, Cols)>>]])])
         IN  Mat([p \in Pix |->
                 SeqSum([j \in 1 .. k |->
                     w[j] * row[<<Reflect101(p[1] + j - 1 - r, Rows), p[2]>>]])])

\* fractional bits kept of the float quotient (gray + 1) / (background + 1)
FracScale == 2 ^ 10

\* saturate_cast<uchar> of num / den: round to nearest, ties to even
RoundHalfEven(num, den) ==
    LET q == num \div den
        r == num % den
    IN  IF 2 * r > den \/ (2 * r = den /\ q % 2 = 1) THEN q + 1 ELSE q

\* cv::normalize with the minimum and the maximum taken over the whole
\* image (cv::minMaxIdx without the mask)
NormalizeMinMaxWhole(src, mask) ==
    LET sel == {p \in Pix : mask[p] # 0}
        smin == SetMin({src[p] : p \in Pix})
        smax == SetMax({src[p] : p \in Pix})
    IN  Mat([p \in Pix |->
            IF p \notin sel \/ smax = smin
            THEN 0
            ELSE RoundHalfEven(255 * (src[p] - smin), smax - smin)])

\* cv::normalize(src, dst, 0, 255, cv::NORM_MINMAX, CV_8U, mask): minimum and
\* maximum over the pixels the mask selects; the pixels it does not select
\* are 0 in the reallocated 8-bit destination
NormalizeMinMax(src, mask) ==
    LET sel == {p \in Pix : mask[p] # 0}
        smin == IF sel = {} THEN 0 ELSE SetMin({src[p] : p \in sel})
        smax == IF sel = {} THEN 0 ELSE SetMax({src[p] : p \in sel})
    IN  Mat([p \in Pix |->
            IF p \notin sel \/ smax = smin
            THEN 0
            ELSE RoundHalfEven(255 * (src[p] - smin), smax - smin)])

\* the blur size passed on as it is
KeepBlurSize(b) == b

\* if (blur_size % 2 == 0) blur_size++;
OddBlurSize(b) == IF b % 2 = 0 THEN b + 1 ELSE b

\* lines 44-54: the quotient (gray + 1) / (background + 1) of cv::divide, in
\* units of 1 / FracScale
divided_image(gray, b) ==
    LET k == OddBlurSize(b)
        background == GaussianBlur(gray, k)
        den == GaussianDenominator(k) * GaussianDenominator(k)
    IN  IF background = NoMat
        THEN NoMat
        ELSE Mat([p \in Pix |->
                ((gray[p] + 1) * den * FracScale) \div (background[p] + den)])

correct_illumination(gray, mask, b) ==
    LET corrected == divided_image(gray, b)
    IN  IF corrected = NoMat
        THEN NoMat
        ELSE NormalizeMinMax(corrected, mask)

----------------------------------------------------------------------------
(* detect_defects                                                          *)

\* cv::CLAHE::apply with clip limit 3.0 and an 8 x 8 tile grid on an image of
\* at most 8 x 8 pixels: every tile is one pixel, the clip limit is 1 and
\* clips nothing, the look-up table of a tile is 0 below its pixel and 255
\* from it on, and a pixel is the mean of the tables of the four tiles
\* around its upper left corner
ClaheTiles(p) ==
    << <<SetMax({p[1] - 1, 0}), SetMax({p[2] - 1, 0})>>,
       <<SetMax({p[1] - 1, 0}), p[2]>>,
       <<p[1], SetMax({p[2] - 1, 0})>>,
       <<p[1], p[2]>> >>

ClaheApply(src) ==
    Mat([p \in Pix |->
        RoundHalfEven(
            255 * Cardinality({i \in 1 .. 4 : src[ClaheTiles(p)[i]] <= src[p]}),
            4)])

\* detect_defects without the final cv::bitwise_and with the lens mask
detect_defects_unmasked(corrected, mask, threshold) ==
    LET enhanced == ClaheApply(corrected)
        tophat == MorphTopHat(enhanced, Under7)
        thresholded == ThresholdBinary(tophat, threshold)
    IN  MorphOpen(thresholded, Under3)

detect_defects(corrected, mask, threshold) ==
    LET enhanced == ClaheApply(corrected)
        tophat == MorphTopHat(enhanced, Under7)
        thresholded == ThresholdBinary(tophat, threshold)
        opened == MorphOpen(thresholded, Under3)
    IN  bitwise_and(opened, mask)

----------------------------------------------------------------------------
(* analyze_defects                                                         *)
(* Areas are kept doubled (the polygon area is a multiple of 0.5), the     *)
(* aspect ratio as the pair width / max(height, 1), the centre as          *)
(* m10 / m00 and m01 / m00 over the common denominator 6 * m00.            *)

MinArea2 == 4          \* area < 2.0f
ScratchArea2 == 10     \* area > 5.0f
ClusterArea2 == 300    \* area > 150.0f

\* the test written ar > 2.5f || ar < 0.70f
is_elongated_strict(w, h) == 2 * w > 5 * h \/ 10 * w < 7 * h

\* ar > 2.5f || ar <= 0.70f
is_elongated(w, h) == 2 * w > 5 * h \/ 10 * w <= 7 * h

\* the tests in the other order: the area above 150.0f decides first
classify_cluster_first(area2, ar) ==
    IF area2 > 300 THEN "cluster"
    ELSE IF (2 * ar.num > 5 * ar.den \/ 10 * ar.num <= 7 * ar.den) /\ area2 > 10
         THEN "scratch"
         ELSE "speck"

\* the tests of analyzeDefects, the earlier revision kept at the top of
\* src/UI.h (lines 165-174): ar > 2.5f || ar < 0.40f, and area > 20.0f
classify_v1(area2, ar) ==
    IF (2 * ar.num > 5 * ar.den \/ 10 * ar.num < 4 * ar.den) /\ area2 > 40
    THEN "scratch"
    ELSE IF area2 > ClusterArea2 THEN "cluster" ELSE "speck"

\* the tests without the final else: d.type keeps its default, the empty string
classify_no_default(area2, ar) ==
    IF is_elongated(ar.num, ar.den) /\ area2 > ScratchArea2
    THEN "scratch"
    ELSE IF area2 > ClusterArea2 THEN "cluster" ELSE ""

classify(area2, ar) ==
    IF is_elongated(ar.num, ar.den) /\ area2 > ScratchArea2
    THEN "scratch"
    ELSE IF area2 > ClusterArea2 THEN "cluster" ELSE "speck"

\* the body of the loop for one contour that passed the area floor
DefectOf(c) ==
    LET area2 == contourArea2(c)
        box == boundingRect(c)
        mom == moments(c)
        ar == [num |-> box.width, den |-> SetMax({box.height, 1})]
    IN  [area2 |-> area2,
         boundingBox |-> box,
         center |-> [xnum |-> mom.m10x6, ynum |-> mom.m01x6, den |-> mom.m00x6],
         ar |-> ar,
         type |-> classify(area2, ar)]

\* the loop without the floor test
RECURSIVE analyze_contours_no_floor(_)
analyze_contours_no_floor(cs) ==
    IF cs = << >> THEN << >>
    ELSE << DefectOf(Head(cs)) >> \o analyze_contours_no_floor(Tail(cs))

\* the loop with the floor test written area <= 2.0f
RECURSIVE analyze_contours_strict(_)
analyze_contours_strict(cs) ==
    IF cs = << >> THEN << >>
    ELSE IF contourArea2(Head(cs)) <= MinArea2
         THEN analyze_contours_strict(Tail(cs))
         ELSE << DefectOf(Head(cs)) >> \o analyze_contours_strict(Tail(cs))

\* the loop with each record put in front of the list (defects.insert at begin)
RECURSIVE analyze_contours_reversed(_)
analyze_contours_reversed(cs) ==
    IF cs = << >> THEN << >>
    ELSE IF contourArea2(Head(cs)) < MinArea2
         THEN analyze_contours_reversed(Tail(cs))
         ELSE analyze_contours_reversed(Tail(cs)) \o << DefectOf(Head(cs)) >>

RECURSIVE analyze_contours(_)
analyze_contours(cs) ==
    IF cs = << >> THEN << >>
    ELSE IF contourArea2(Head(cs)) < MinArea2
         THEN analyze_contours(Tail(cs))
         ELSE << DefectOf(Head(cs)) >> \o analyze_contours(Tail(cs))

analyze_defects(mask) == analyze_contours(findContours(mask))

----------------------------------------------------------------------------
(* The verdict of btn_analyze_click.                                       *)
(* ratio = defect_pixels / max(lens_pixels, 1) is kept as that pair; the   *)
(* float constant 0.000005f is 5 / 1000000.                                *)

\* the ratio without std::max(lens_pixels, 1)
RatioOfUnfloored(lens, defect) == [num |-> defect, den |-> lens]

RatioOf(lens, defect) == [num |-> defect, den |-> SetMax({lens, 1})]

\* ratio <= 0.000005f
PassOfInclusive(r) == r.num * 1000000 <= 5 * r.den

\* ratio < 0.000005f
PassOf(r) == r.num * 1000000 < 5 * r.den

\* the verdict letter taken from the defect list: "Y" when it is empty
VerdictTextByCount(ok, count, r) ==
    [verdict |-> IF count = 0 THEN "Y" ELSE "N",
     defects |-> count,
     area |-> RoundHalfEven(r.num * 1000000, r.den),
     color |-> IF count = 0 THEN "Green" ELSE "Red"]

\* "{0}  |  Defects: {1}  |  Area: {2:F4}%" and the fore colour: the verdict
\* letter, the number of defects, ratio * 100 in units of 0.0001 percent
VerdictText(ok, count, r) ==
    [verdict |-> IF ok THEN "Y" ELSE "N",
     defects |-> count,
     area |-> RoundHalfEven(r.num * 1000000, r.den),
     color |-> IF ok THEN "Green" ELSE "Red"]

\* lbl_verdict_->Text = ""
NoVerdict == [verdict |-> "", defects |-> 0, area |-> 0, color |-> "none"]

\* populate_defect_list: one card per defect, tagged with its index
populate_defect_list(defects) == [i \in 1 .. Len(defects) |-> i - 1]

\* build_annotated_display: the colour copy of the corrected image, and what
\* is drawn on it: the contours of the mask, and for each defect a circle of
\* radius max(8, (int) sqrt(area) + 4) in the colour of its type with its
\* number beside it.  The parameters pass and ratio are not used.
build_annotated_display(corrected, mask, defects, ok, r) ==
    [order |-> "BGR",
     base |-> corrected,
     outline |-> findContours(mask),
     marks |-> [i \in 1 .. Len(defects) |->
                  [center |-> defects[i].center,
                   radius |->
                      LET n == defects[i].area2 \div 2
                          root == CHOOSE q \in 0 .. n :
                                     q * q <= n /\ (q + 1) * (q + 1) > n
                      IN  SetMax({8, root + 4}),
                   color |-> CASE defects[i].type = "scratch" -> <<0, 0, 255>>
                               [] defects[i].type = "cluster" -> <<0, 165, 255>>
                               [] OTHER -> <<255, 0, 255>>,
                   text |-> i]]]

\* mat_to_bitmap: the channels swapped by cv::COLOR_BGR2RGB and copied into
\* a bitmap of the same size
mat_to_bitmap(m) == [m EXCEPT !.order = "RGB"]

\* the computation of btn_analyze_click, from the stored image and mask and
\* the values of the two controls to what it stores and shows
analyze_click(gray, mask, blur, threshold) ==
    LET corrected == correct_illumination(gray, mask, blur)
        dmask == detect_defects(corrected, mask, threshold)
        cs == findContours(dmask)
        defects == analyze_contours(cs)
        lens == countNonZero(mask)
        defect == countNonZero(dmask)
        r == RatioOf(lens, defect)
        ok == PassOf(r)
    IN  [blur_size |-> OddBlurSize(blur),
         corrected |-> corrected,
         defect_mask |-> dmask,
         contours |-> cs,
         defects |-> defects,
         lens_pixels |-> lens,
         defect_pixels |-> defect,
         ratio |-> r,
         pass |-> ok,
         display |-> build_annotated_display(corrected, mask, defects, ok, r),
         verdict |-> VerdictText(ok, Len(defects), r),
         cards |-> populate_defect_list(defects)]

----------------------------------------------------------------------------
(* Input images: a decoded BMP whose pixels are gray (b = g = r), either   *)
(* uniform (black, at the lens threshold 8, or lit at 200) or a lit lens   *)
(* with one rectangular feature at 255.                                    *)

Anchors == {<<0, 0>>, <<1, 1>>}

Features ==
    {[r0 |-> a[1], c0 |-> a[2], h |-> h, w |-> w] :
        a \in Anchors, h \in 1 .. MaxFeature, w \in 1 .. MaxFeature}

InFeature(f, p) ==
    /\ f.r0 <= p[1] /\ p[1] < f.r0 + f.h
    /\ f.c0 <= p[2] /\ p[2] < f.c0 + f.w

\* a raster that is fg on the feature and bg elsewhere
FeatureRaster(bg, fg, f) ==
    Mat([p \in Pix |-> IF InFeature(f, p) THEN fg ELSE bg])

Uniform(v) == Mat([p \in Pix |-> v])

GrayBmp(m) == Mat([p \in Pix |-> <<m[p], m[p], m[p]>>])

Bmps ==
    {GrayBmp(Uniform(v)) : v \in {0, 8, 200}}
        \cup {GrayBmp(FeatureRaster(200, 255, f)) : f \in Features}

\* cv::cvtColor(img, gray, cv::COLOR_BGR2GRAY) on 8-bit pixels <<b, g, r>>
cvtColorBGR2GRAY(img) ==
    Mat([p \in Pix |->
            (img[p][1] * 1868 + img[p][2] * 9617 + img[p][3] * 4899 + 8192)
                \div 16384])

BlurValues == 0 .. MaxBlur

Thresholds == {-1, 0, 17, 64, 255}

NudThresholdMin == 1
NudThresholdMax == 255

NudThresholds ==
    {t \in Thresholds : NudThresholdMin <= t /\ t <= NudThresholdMax}

\* extract_lens_mask and the computation of btn_analyze_click, evaluated once
\* for every input of the model
Grays == {cvtColorBGR2GRAY(img) : img \in Bmps}

LensMaskOf == Mat([g \in Grays |-> extract_lens_mask(g)])

AnalysisOf ==
    Mat([k \in Grays \X BlurValues \X NudThresholds |->
            analyze_click(k[1], LensMaskOf[k[1]], k[2], k[3])])

----------------------------------------------------------------------------
(* The form.                                                               *)

analysis == << stored_corrected_, stored_defects_, blur_size, defect_mask,
               contours, lens_pixels, defect_pixels, ratio, pass >>

NoAnalysis ==
    /\ stored_corrected_ = NullPtr
    /\ stored_defects_ = NullPtr
    /\ blur_size = 0
    /\ defect_mask = NoMat
    /\ contours = << >>
    /\ lens_pixels = 0
    /\ defect_pixels = 0
    /\ ratio = RatioOf(0, 0)
    /\ pass = FALSE

Init ==
    /\ has_image_ = FALSE
    /\ btn_analyze_enabled = FALSE
    /\ stored_gray_ = NullPtr
    /\ stored_mask_ = NullPtr
    /\ nud_blur_ \in BlurValues
    /\ nud_threshold_ \in NudThresholds
    /\ NoAnalysis
    /\ lbl_verdict_ = NoVerdict
    /\ flp_defects_ = << >>
    /\ morph_mask = NoMat
    /\ divided = NoMat
    /\ NoView
    /\ NoLocals

\* btn_load_click when the dialog is cancelled
LoadCancelled == UNCHANGED vars

\* btn_load_click when cv::imread returns an empty image
LoadFailed == UNCHANGED vars

\* btn_load_click when the file decodes to img
LoadImage(img) ==
    LET gray == cvtColorBGR2GRAY(img)
    IN  /\ stored_gray_' = New(gray)
        /\ stored_mask_' = New(LensMaskOf[gray])
        /\ lbl_verdict_' = NoVerdict
        /\ flp_defects_' = << >>
        /\ pb_original_' = New(img)
        /\ pb_analyzed_' = NullPtr
        /\ pb_zoom_' = NullPtr
        /\ lbl_defect_info_' =
              [text |-> "Click a defect on the right\nimage to inspect it here"]
        /\ has_image_' = TRUE
        /\ btn_analyze_enabled' = TRUE
        /\ UNCHANGED << stage_locals, stored_display_, nud_blur_,
                        nud_threshold_, analysis >>

btn_load_click ==
    \/ LoadCancelled
    \/ LoadFailed
    \/ \E img \in Bmps : LoadImage(img)

\* btn_analyze_click that keeps a corrected image it already holds
\* (if (!stored_corrected_) stored_corrected_ = new cv::Mat (...))
btn_analyze_click_cached ==
    IF ~has_image_
    THEN UNCHANGED vars
    ELSE LET a == AnalysisOf[<<Deref(stored_gray_), nud_blur_, nud_threshold_>>]
         IN  /\ stored_corrected_' =
                   IF stored_corrected_ = NullPtr
                   THEN New(a.corrected)
                   ELSE stored_corrected_
             /\ blur_size' = a.blur_size
             /\ defect_mask' = a.defect_mask
             /\ contours' = a.contours
             /\ stored_defects_' = New(a.defects)
             /\ lens_pixels' = a.lens_pixels
             /\ defect_pixels' = a.defect_pixels
             /\ ratio' = a.ratio
             /\ pass' = a.pass
             /\ lbl_verdict_' = a.verdict
             /\ stored_display_' = New(a.display)
             /\ pb_analyzed_' = New(mat_to_bitmap(a.display))
             /\ flp_defects_' = a.cards
             /\ UNCHANGED << stage_locals, pb_original_, pb_zoom_,
                             lbl_defect_info_, has_image_,
                             btn_analyze_enabled, stored_gray_, stored_mask_,
                             nud_blur_, nud_threshold_ >>

btn_analyze_click ==
    IF ~has_image_
    THEN UNCHANGED vars
    ELSE LET a == AnalysisOf[<<Deref(stored_gray_), nud_blur_, nud_threshold_>>]
         IN  /\ stored_corrected_' = New(a.corrected)
             /\ blur_size' = a.blur_size
             /\ defect_mask' = a.defect_mask
             /\ contours' = a.contours
             /\ stored_defects_' = New(a.defects)
             /\ lens_pixels' = a.lens_pixels
             /\ defect_pixels' = a.defect_pixels
             /\ ratio' = a.ratio
             /\ pass' = a.pass
             /\ stored_display_' = New(a.display)
             /\ pb_analyzed_' = New(mat_to_bitmap(a.display))
             /\ lbl_verdict_' = a.verdict
             /\ flp_defects_' = a.cards
             /\ UNCHANGED << stage_locals, pb_original_, pb_zoom_,
                             lbl_defect_info_, has_image_,
                             btn_analyze_enabled, stored_gray_, stored_mask_,
                             nud_blur_, nud_threshold_ >>

\* the user edits nud_threshold_ or nud_blur_; no handler is attached
nud_threshold_changed ==
    \E t \in NudThresholds :
        /\ nud_threshold_' = t
        /\ UNCHANGED << stage_locals, view, has_image_, btn_analyze_enabled, stored_gray_,
                        stored_mask_, nud_blur_, lbl_verdict_, flp_defects_,
                        analysis >>

nud_blur_changed ==
    \E b \in BlurValues :
        /\ nud_blur_' = b
        /\ UNCHANGED << stage_locals, view, has_image_, btn_analyze_enabled, stored_gray_,
                        stored_mask_, nud_threshold_, lbl_verdict_,
                        flp_defects_, analysis >>

Next ==
    \/ btn_load_click
    \/ btn_analyze_click
    \/ nud_threshold_changed
    \/ nud_blur_changed

Spec == Init /\ [][Next]_vars

----------------------------------------------------------------------------
(* detect_defects and the pixel counts of btn_analyze_click taken alone:   *)
(* any corrected image, any lens mask, any threshold.                      *)

CorrectedInputs ==
    {Uniform(0), Uniform(255)}
        \cup {FeatureRaster(0, 255, f) : f \in Features}
        \cup {FeatureRaster(255, 0, f) : f \in Features}

\* no lens, a lens that fills the image, a square lens
MaskInputs ==
    {Zeros, Uniform(255)}
        \cup {FeatureRaster(0, 255, f) : f \in {g \in Features : g.h = g.w}}

DetectOf ==
    Mat([k \in CorrectedInputs \X MaskInputs \X Thresholds |->
            detect_defects(k[1], k[2], k[3])])

DetectInit ==
    /\ has_image_ = TRUE
    /\ btn_analyze_enabled = TRUE
    /\ stored_gray_ = NullPtr
    /\ \E m \in MaskInputs : stored_mask_ = New(m)
    /\ \E c \in CorrectedInputs : stored_corrected_ = New(c)
    /\ nud_blur_ = 0
    /\ nud_threshold_ \in Thresholds
    /\ stored_defects_ = NullPtr
    /\ blur_size = 0
    /\ defect_mask = NoMat
    /\ contours = << >>
    /\ lens_pixels = 0
    /\ defect_pixels = 0
    /\ ratio = RatioOf(0, 0)
    /\ pass = FALSE
    /\ lbl_verdict_ = NoVerdict
    /\ flp_defects_ = << >>
    /\ morph_mask = NoMat
    /\ divided = NoMat
    /\ NoView
    /\ NoLocals

\* lines 253 and 257-260 of btn_analyze_click, with the threshold set to t
DetectStage(t) ==
    LET mask == Deref(stored_mask_)
        dmask == DetectOf[<<Deref(stored_corrected_), mask, t>>]
        lens == countNonZero(mask)
        defect == countNonZero(dmask)
        r == RatioOf(lens, defect)
    IN  /\ nud_threshold_' = t
        /\ defect_mask' = dmask
        /\ lens_pixels' = lens
        /\ defect_pixels' = defect
        /\ ratio' = r
        /\ pass' = PassOf(r)
        /\ UNCHANGED << stage_locals, view, has_image_, btn_analyze_enabled, stored_gray_,
                        stored_mask_, stored_corrected_, stored_defects_,
                        nud_blur_, blur_size, contours, lbl_verdict_,
                        flp_defects_ >>

DetectNext == \E t \in Thresholds : DetectStage(t)

SpecDetect == DetectInit /\ [][DetectNext]_vars

\* C1: the candidate mask returned by detect_defects has no foreground pixel
\* where the lens mask is 0, for every corrected image, mask and threshold.
MaskContainment ==
    defect_mask # NoMat =>
        \A p \in Pix : Deref(stored_mask_)[p] = 0 => defect_mask[p] = 0

\* detection has produced candidates under a mask that excludes some pixels
MaskContainmentWitness ==
    /\ defect_mask # NoMat
    /\ countNonZero(defect_mask) > 0
    /\ \E p \in Pix : Deref(stored_mask_)[p] = 0

ThresholdMonotone ==
    [][(defect_mask # NoMat /\ nud_threshold_' >= nud_threshold_) =>
          /\ Foreground(defect_mask') \subseteq Foreground(defect_mask)
          /\ countNonZero(defect_mask') <= countNonZero(defect_mask)]_vars

\* detection at the present threshold has removed pixels that a lower
\* threshold keeps
ThresholdMonotoneWitness ==
    /\ defect_mask # NoMat
    /\ \E t \in Thresholds :
          /\ t < nud_threshold_
          /\ countNonZero(defect_mask) <
                countNonZero(DetectOf[<<Deref(stored_corrected_),
                                        Deref(stored_mask_), t>>])

----------------------------------------------------------------------------
(* The loop of analyze_defects taken alone, on the contours cv::findContours *)
(* returns for solid rectangles and solid right triangles of pixels.         *)

Pt(x, y) == [x |-> x, y |-> y]

\* the contour of a solid block of w x h pixels
RectContour(w, h) ==
    IF w = 1 /\ h = 1 THEN << Pt(0, 0) >>
    ELSE IF w = 1 THEN << Pt(0, 0), Pt(0, h - 1) >>
    ELSE IF h = 1 THEN << Pt(0, 0), Pt(w - 1, 0) >>
    ELSE << Pt(0, 0), Pt(0, h - 1), Pt(w - 1, h - 1), Pt(w - 1, 0) >>

\* the contour of a solid right triangle whose legs are a + 1 pixels
TriContour(a) == << Pt(0, 0), Pt(0, a), Pt(a, a) >>

\* solid rectangles and triangles up to MaxSide, and a solid bar of 3 x 30
\* pixels in both orientations
ContourInputs ==
    {RectContour(w, h) : w \in 1 .. MaxSide, h \in 1 .. MaxSide}
        \cup {TriContour(a) : a \in 1 .. MaxSide}
        \cup {RectContour(3, 30), RectContour(30, 3)}

SecondContours ==
    {RectContour(w, h) : w \in 1 .. MaxSecond, h \in 1 .. MaxSecond}

ContourLists ==
    {<< c >> : c \in ContourInputs}
        \cup {<< c, d >> : c \in ContourInputs, d \in SecondContours}

ClassifyInit ==
    /\ has_image_ = TRUE
    /\ btn_analyze_enabled = TRUE
    /\ stored_gray_ = NullPtr
    /\ stored_mask_ = NullPtr
    /\ stored_corrected_ = NullPtr
    /\ stored_defects_ = NullPtr
    /\ nud_blur_ = 0
    /\ nud_threshold_ = NudThresholdMin
    /\ blur_size = 0
    /\ defect_mask = NoMat
    /\ contours \in ContourLists
    /\ lens_pixels = 0
    /\ defect_pixels = 0
    /\ ratio = RatioOf(0, 0)
    /\ pass = FALSE
    /\ lbl_verdict_ = NoVerdict
    /\ flp_defects_ = << >>
    /\ morph_mask = NoMat
    /\ divided = NoMat
    /\ NoView
    /\ NoLocals

\* the loop of analyze_defects over the contours
ClassifyStage ==
    /\ stored_defects_' = New(analyze_contours(contours))
    /\ UNCHANGED << stage_locals, view, has_image_, btn_analyze_enabled, stored_gray_, stored_mask_,
                    stored_corrected_, nud_blur_, nud_threshold_, blur_size,
                    defect_mask, contours, lens_pixels, defect_pixels, ratio,
                    pass, lbl_verdict_, flp_defects_ >>

ClassifyNext == ClassifyStage

SpecClassify == ClassifyInit /\ [][ClassifyNext]_vars

\* C2: every record is of one of the contours, and its type is Scratch if
\* (ar > 2.5 or ar <= 0.70) and area > 5.0, otherwise Cluster if area > 150.0,
\* otherwise Speck, with ar = width / max(height, 1) of its bounding box.
ClassificationRule ==
    stored_defects_ # NullPtr =>
        \A i \in 1 .. Len(Deref(stored_defects_)) :
            LET d == Deref(stored_defects_)[i]
                w == d.boundingBox.width
                h == SetMax({d.boundingBox.height, 1})
            IN  /\ \E j \in 1 .. Len(contours) :
                      /\ d.area2 = contourArea2(contours[j])
                      /\ d.boundingBox = boundingRect(contours[j])
                /\ d.type =
                      IF (2 * w > 5 * h \/ 10 * w <= 7 * h) /\ d.area2 > 10
                      THEN "scratch"
                      ELSE IF d.area2 > 300 THEN "cluster" ELSE "speck"

\* an elongated contour of area above 150 has been classified: the first
\* test decides
ClassificationRuleWitness ==
    /\ stored_defects_ # NullPtr
    /\ \E i \in 1 .. Len(Deref(stored_defects_)) :
          /\ Deref(stored_defects_)[i].type = "scratch"
          /\ Deref(stored_defects_)[i].area2 > 300

\* C3: every record carries exactly one type out of Speck, Scratch, Cluster.
ClassificationTotal ==
    stored_defects_ # NullPtr =>
        \A i \in 1 .. Len(Deref(stored_defects_)) :
            Cardinality({t \in {"speck", "scratch", "cluster"} :
                            Deref(stored_defects_)[i].type = t}) = 1

\* two contours of one list have received different types, one of them the
\* default Speck
ClassificationTotalWitness ==
    /\ stored_defects_ # NullPtr
    /\ Len(Deref(stored_defects_)) = 2
    /\ Deref(stored_defects_)[1].type # "speck"
    /\ Deref(stored_defects_)[2].type = "speck"

\* C4: the records are those of the contours of area >= 2.0, in order; none
\* has area < 2.0 and every one has area > 0.
AreaFloor ==
    stored_defects_ # NullPtr =>
        /\ [i \in 1 .. Len(Deref(stored_defects_)) |->
                Deref(stored_defects_)[i].area2] =
              SelectSeq([j \in 1 .. Len(contours) |-> contourArea2(contours[j])],
                        LAMBDA a : a >= 4)
        /\ \A i \in 1 .. Len(Deref(stored_defects_)) :
              /\ Deref(stored_defects_)[i].area2 >= 4
              /\ Deref(stored_defects_)[i].area2 > 0

\* a contour of area exactly 2.0 has been retained and another discarded
AreaFloorWitness ==
    /\ stored_defects_ # NullPtr
    /\ Len(contours) = 2
    /\ Len(Deref(stored_defects_)) = 1
    /\ contourArea2(contours[1]) = 4
    /\ Deref(stored_defects_)[1].area2 = 4

----------------------------------------------------------------------------
(* The verdict of btn_analyze_click taken alone, on pixel counts around the  *)
(* multiples of 200000 lens pixels per defect pixel, where the ratio crosses *)
(* 0.000005.  The candidate mask lies within the lens mask.                  *)

LensCounts ==
    (0 .. MaxLens)
        \cup {k * 200000 + d : k \in 1 .. MaxLens, d \in {-1, 0, 1}}

VerdictInit ==
    /\ has_image_ = TRUE
    /\ btn_analyze_enabled = TRUE
    /\ stored_gray_ = NullPtr
    /\ stored_mask_ = NullPtr
    /\ stored_corrected_ = NullPtr
    /\ stored_defects_ = New(<< >>)
    /\ nud_blur_ = 0
    /\ nud_threshold_ = NudThresholdMin
    /\ blur_size = 0
    /\ defect_mask = NoMat
    /\ contours = << >>
    /\ lens_pixels \in LensCounts
    /\ defect_pixels \in 0 .. MaxDefect
    /\ defect_pixels <= lens_pixels
    /\ ratio = RatioOf(0, 0)
    /\ pass = FALSE
    /\ lbl_verdict_ = NoVerdict
    /\ flp_defects_ = << >>
    /\ morph_mask = NoMat
    /\ divided = NoMat
    /\ NoView
    /\ NoLocals

\* lines 259-274 of btn_analyze_click
VerdictStage ==
    LET r == RatioOf(lens_pixels, defect_pixels)
        ok == PassOf(r)
    IN  /\ ratio' = r
        /\ pass' = ok
        /\ lbl_verdict_' = VerdictText(ok, Len(Deref(stored_defects_)), r)
        /\ UNCHANGED << stage_locals, view, has_image_, btn_analyze_enabled, stored_gray_,
                        stored_mask_, stored_corrected_, stored_defects_,
                        nud_blur_, nud_threshold_, blur_size, defect_mask,
                        contours, lens_pixels, defect_pixels, flp_defects_ >>

VerdictNext == VerdictStage

SpecVerdict == VerdictInit /\ [][VerdictNext]_vars

\* C6: the verdict is pass exactly when defect pixels / max(lens pixels, 1)
\* is below 0.000005; a ratio equal to 0.000005 is a fail.
PassDecision ==
    lbl_verdict_ # NoVerdict =>
        LET lens == SetMax({lens_pixels, 1})
        IN  /\ pass <=> defect_pixels * 1000000 < 5 * lens
            /\ (defect_pixels * 1000000 = 5 * lens => ~pass)
            /\ lbl_verdict_.verdict = IF pass THEN "Y" ELSE "N"

\* a verdict has been given for a ratio of exactly 0.000005
PassDecisionWitness ==
    /\ lbl_verdict_ # NoVerdict
    /\ defect_pixels > 0
    /\ defect_pixels * 1000000 = 5 * lens_pixels

----------------------------------------------------------------------------
(* correct_illumination taken alone: any image of the model, any mask, any   *)
(* blur size from 0 to MaxBlurSize.                                          *)

BlurSizes == 0 .. MaxBlurSize

CorrectOf ==
    Mat([k \in Grays \X MaskInputs \X BlurSizes |->
            correct_illumination(k[1], k[2], k[3])])

CorrectInit ==
    /\ has_image_ = TRUE
    /\ btn_analyze_enabled = TRUE
    /\ \E g \in Grays : stored_gray_ = New(g)
    /\ \E m \in MaskInputs : stored_mask_ = New(m)
    /\ stored_corrected_ = NullPtr
    /\ stored_defects_ = NullPtr
    /\ nud_blur_ \in BlurSizes
    /\ nud_threshold_ = NudThresholdMin
    /\ blur_size = 0
    /\ defect_mask = NoMat
    /\ contours = << >>
    /\ lens_pixels = 0
    /\ defect_pixels = 0
    /\ ratio = RatioOf(0, 0)
    /\ pass = FALSE
    /\ lbl_verdict_ = NoVerdict
    /\ flp_defects_ = << >>
    /\ morph_mask = NoMat
    /\ divided = NoMat
    /\ NoView
    /\ NoLocals

\* lines 247 and 250-251 of btn_analyze_click, with the blur size set to b
CorrectStage(b) ==
    /\ nud_blur_' = b
    /\ blur_size' = OddBlurSize(b)
    /\ stored_corrected_' =
          New(CorrectOf[<<Deref(stored_gray_), Deref(stored_mask_), b>>])
    /\ UNCHANGED << stage_locals, view, has_image_, btn_analyze_enabled, stored_gray_, stored_mask_,
                    stored_defects_, nud_threshold_, defect_mask, contours,
                    lens_pixels, defect_pixels, ratio, pass, lbl_verdict_,
                    flp_defects_ >>

CorrectNext == \E b \in BlurSizes : CorrectStage(b)

SpecCorrect == CorrectInit /\ [][CorrectNext]_vars

\* C10: correcting with an even blur size b and then with b + 1 on the same
\* image and mask gives the same output, which is an image; the kernel extent
\* used for the even b is odd, and the odd b + 1 is used unchanged.
EvenBlurNormalised ==
    [][(stored_corrected_ # NullPtr /\ nud_blur_ % 2 = 0
            /\ nud_blur_' = nud_blur_ + 1) =>
          /\ stored_corrected_' = stored_corrected_
          /\ Deref(stored_corrected_') # NoMat
          /\ blur_size % 2 = 1
          /\ blur_size' = nud_blur_']_vars

\* an even blur size has been used on an input where the blur size matters
EvenBlurNormalisedWitness ==
    /\ stored_corrected_ # NullPtr
    /\ nud_blur_ % 2 = 0
    /\ nud_blur_ + 2 \in BlurSizes
    /\ Deref(stored_corrected_) #
          CorrectOf[<<Deref(stored_gray_), Deref(stored_mask_), nud_blur_ + 2>>]

----------------------------------------------------------------------------
(* The form with an image in which no lens is found.                         *)

\* C8: for an all-zero image extract_lens_mask returns an all-zero mask of
\* the image's dimensions, and an analysis of it reports zero lens pixels, no
\* defect, ratio 0 and pass.
NoLensDetected ==
    (stored_gray_ # NullPtr /\ Deref(stored_gray_) = Zeros) =>
        /\ DOMAIN Deref(stored_mask_) = DOMAIN Deref(stored_gray_)
        /\ Deref(stored_mask_) = Zeros
        /\ lbl_verdict_ # NoVerdict =>
              /\ lens_pixels = 0
              /\ defect_pixels = 0
              /\ Deref(stored_defects_) = << >>
              /\ lbl_verdict_.defects = 0
              /\ flp_defects_ = << >>
              /\ ratio.num = 0
              /\ lbl_verdict_.area = 0
              /\ pass

\* the all-zero image has been loaded and analysed
NoLensDetectedWitness ==
    /\ stored_gray_ # NullPtr
    /\ Deref(stored_gray_) = Zeros
    /\ lbl_verdict_ # NoVerdict

\* C9: whenever the stored lens mask has no foreground pixel, the verdict
\* shown after an analysis is not the ordinary pass verdict.
EmptyMaskIsNotAPass ==
    (stored_mask_ # NullPtr /\ Foreground(Deref(stored_mask_)) = {}
        /\ lbl_verdict_ # NoVerdict) =>
            ~(lbl_verdict_.verdict = "Y" /\ lbl_verdict_.color = "Green")

----------------------------------------------------------------------------
(* Lines 13-36 of extract_lens_mask taken alone.  On a grid this small the   *)
(* 15 x 15 close and open leave a mask that is empty or full, so the         *)
(* selection of the largest contour is given every binary mask whose         *)
(* foreground lies in the two opposite 2 x 2 corners of the grid, and a      *)
(* ring with a hole.                                                         *)

Corners ==
    {p \in Pix : (p[1] <= 1 /\ p[2] <= 1)
                    \/ (p[1] >= Rows - 2 /\ p[2] >= Cols - 2)}

Ring == {p \in Pix : p[1] <= 2 /\ p[2] <= 2} \ {<<1, 1>>}

BinaryOf(S) == Mat([p \in Pix |-> IF p \in S THEN 255 ELSE 0])

SelectInputs == {BinaryOf(S) : S \in SUBSET Corners} \cup {BinaryOf(Ring)}

SelectInit ==
    /\ has_image_ = FALSE
    /\ btn_analyze_enabled = FALSE
    /\ stored_gray_ = NullPtr
    /\ stored_mask_ = NullPtr
    /\ nud_blur_ = 0
    /\ nud_threshold_ = NudThresholdMin
    /\ NoAnalysis
    /\ lbl_verdict_ = NoVerdict
    /\ flp_defects_ = << >>
    /\ morph_mask \in SelectInputs
    /\ divided = NoMat
    /\ NoView
    /\ NoLocals

\* lines 13-36 of extract_lens_mask and line 227 of btn_load_click
SelectStage ==
    /\ stored_mask_' = New(clean_mask(morph_mask))
    /\ UNCHANGED << stage_locals, view, has_image_, btn_analyze_enabled,
                    stored_gray_, nud_blur_, nud_threshold_, analysis,
                    lbl_verdict_, flp_defects_ >>

SelectNext == SelectStage

SpecSelect == SelectInit /\ [][SelectNext]_vars

\* C11: the lens mask has the dimensions of the input and its foreground is
\* empty or one 8-connected region.
SingleComponent ==
    stored_mask_ # NullPtr =>
        LET F == Foreground(Deref(stored_mask_))
        IN  /\ DOMAIN Deref(stored_mask_) = DOMAIN morph_mask
            /\ (F = {} \/ Grow8({RasterFirst(F)}, F) = F)

\* a mask has been returned for an input with several separate regions
SingleComponentWitness ==
    /\ stored_mask_ # NullPtr
    /\ Len(Components(morph_mask)) >= 2
    /\ Foreground(Deref(stored_mask_)) # {}

\* C18: when a contour exists, the mask covers exactly one of them: the
\* first in the order of the contour list among those of maximum area (the
\* first of all when every area is 0); no other contour has a pixel in the
\* mask; with no contour the mask is empty.
LargestContourSelected ==
    stored_mask_ # NullPtr =>
        LET cs == findContours(morph_mask)
            comps == Components(morph_mask)
            F == Foreground(Deref(stored_mask_))
        IN  IF cs = << >>
            THEN F = {}
            ELSE \E i \in 1 .. Len(cs) :
                    /\ \A j \in 1 .. Len(cs) :
                          contourArea2(cs[j]) <= contourArea2(cs[i])
                    /\ \A j \in 1 .. i - 1 :
                          contourArea2(cs[j]) < contourArea2(cs[i])
                    /\ comps[i] \subseteq F
                    /\ \A j \in 1 .. Len(cs) : j # i => comps[j] \cap F = {}

\* two contours share the largest area, which is not 0, and the first is
\* the one in the mask
LargestContourSelectedWitness ==
    /\ stored_mask_ # NullPtr
    /\ Len(findContours(morph_mask)) = 2
    /\ contourArea2(findContours(morph_mask)[1]) > 0
    /\ contourArea2(findContours(morph_mask)[1])
          = contourArea2(findContours(morph_mask)[2])
    /\ Components(morph_mask)[1] \subseteq Foreground(Deref(stored_mask_))

----------------------------------------------------------------------------
(* The form: repeated analyses.                                              *)

----------------------------------------------------------------------------
(* detect_defects with a threshold outside 0 .. 254.                         *)

\* C13: detect_defects returns a mask for every threshold; for a threshold
\* >= 255 it is empty, and for a threshold < 0 it equals the lens mask.
ThresholdOutOfRange ==
    defect_mask # NoMat =>
        /\ DOMAIN defect_mask = Pix
        /\ \A p \in Pix : defect_mask[p] \in 0 .. 255
        /\ (nud_threshold_ >= 255 => Foreground(defect_mask) = {})
        /\ (nud_threshold_ < 0 => defect_mask = Deref(stored_mask_))

\* a negative threshold has been used on an image with a feature, under a
\* lens mask that is neither empty nor full
ThresholdOutOfRangeWitness ==
    /\ defect_mask # NoMat
    /\ nud_threshold_ < 0
    /\ Foreground(Deref(stored_mask_)) \notin {{}, Pix}
    /\ \E p, q \in Pix : Deref(stored_corrected_)[p] # Deref(stored_corrected_)[q]

----------------------------------------------------------------------------
(* The normalisation of correct_illumination, applied to the quotient image *)
(* of every input image and blur size, and again after one pixel of the    *)
(* quotient has been changed.                                               *)

DividedInputs == {divided_image(g, b) : g \in Grays, b \in BlurSizes}

PerturbPixels == {<<0, 0>>, <<Rows - 1, Cols - 1>>}

PerturbLevels == {0, FracScale, 255 * FracScale}

NormalizeInit ==
    /\ has_image_ = TRUE
    /\ btn_analyze_enabled = TRUE
    /\ stored_gray_ = NullPtr
    /\ \E m \in MaskInputs : stored_mask_ = New(m)
    /\ stored_corrected_ = NullPtr
    /\ stored_defects_ = NullPtr
    /\ nud_blur_ = 0
    /\ nud_threshold_ = NudThresholdMin
    /\ blur_size = 0
    /\ defect_mask = NoMat
    /\ contours = << >>
    /\ lens_pixels = 0
    /\ defect_pixels = 0
    /\ ratio = RatioOf(0, 0)
    /\ pass = FALSE
    /\ lbl_verdict_ = NoVerdict
    /\ flp_defects_ = << >>
    /\ morph_mask = NoMat
    /\ divided \in DividedInputs
    /\ NoView
    /\ NoLocals

\* line 55 of correct_illumination
NormalizeStage ==
    /\ stored_corrected_ = NullPtr
    /\ stored_corrected_' = New(NormalizeMinMax(divided, Deref(stored_mask_)))
    /\ UNCHANGED << stage_locals, view, has_image_, btn_analyze_enabled,
                    stored_gray_, stored_mask_, stored_defects_, nud_blur_,
                    nud_threshold_, blur_size, defect_mask, contours,
                    lens_pixels, defect_pixels, ratio, pass, lbl_verdict_,
                    flp_defects_ >>

\* line 55 of correct_illumination on a quotient image that differs from the
\* one normalised before in the pixel p
PerturbStage(p, v) ==
    /\ stored_corrected_ # NullPtr
    /\ divided' = [divided EXCEPT ![p] = v]
    /\ stored_corrected_' = New(NormalizeMinMax(divided', Deref(stored_mask_)))
    /\ UNCHANGED << morph_mask, handler_locals, view, has_image_,
                    btn_analyze_enabled,
                    stored_gray_, stored_mask_, stored_defects_, nud_blur_,
                    nud_threshold_, blur_size, defect_mask, contours,
                    lens_pixels, defect_pixels, ratio, pass, lbl_verdict_,
                    flp_defects_ >>

NormalizeNext ==
    \/ NormalizeStage
    \/ \E p \in PerturbPixels, v \in PerturbLevels : PerturbStage(p, v)

SpecNormalize == NormalizeInit /\ [][NormalizeNext]_vars

\* C14: the normalisation takes its minimum and maximum over the pixels the
\* mask selects: a step that changes the quotient only outside the mask
\* leaves the output as it was, every pixel outside the mask is 0, and on a
\* mask whose pixels do not all have the same quotient the output attains
\* both 0 and 255 within the mask; where they all have the same quotient the
\* whole output is 0.
MaskedMinMax ==
    /\ [][(/\ stored_corrected_ # NullPtr
            /\ stored_corrected_' # NullPtr
            /\ \A p \in Foreground(Deref(stored_mask_)) :
                    divided'[p] = divided[p])
            => stored_corrected_' = stored_corrected_]_vars
    /\ [](stored_corrected_ # NullPtr =>
            LET sel == Foreground(Deref(stored_mask_))
                out == Deref(stored_corrected_)
            IN  /\ \A p \in Pix : out[p] \in 0 .. 255
                /\ \A p \in Pix \ sel : out[p] = 0
                /\ IF \E p, q \in sel : divided[p] # divided[q]
                   THEN /\ \E p \in sel : out[p] = 0
                        /\ \E p \in sel : out[p] = 255
                   ELSE \A p \in sel : out[p] = 0)

\* a pixel outside a non-empty mask has been changed to a quotient above
\* every quotient within the mask, and the quotients within the mask differ
MaskedMinMaxWitness ==
    /\ stored_corrected_ # NullPtr
    /\ LET sel == Foreground(Deref(stored_mask_))
       IN  /\ sel # {}
           /\ \E p, q \in sel : divided[p] # divided[q]
           /\ divided \notin DividedInputs
           /\ \E o \in Pix \ sel : \A p \in sel : divided[o] > divided[p]

\* C14 as stated: on every non-empty mask the output attains both 0 and 255
\* within the mask.
FullRangeOnEveryMask ==
    (stored_corrected_ # NullPtr /\ Foreground(Deref(stored_mask_)) # {}) =>
        /\ \E p \in Foreground(Deref(stored_mask_)) :
                Deref(stored_corrected_)[p] = 0
        /\ \E p \in Foreground(Deref(stored_mask_)) :
                Deref(stored_corrected_)[p] = 255

----------------------------------------------------------------------------
(* analyze_defects on a candidate mask that holds one solid axis-aligned    *)
(* rectangle of w x h pixels.                                                *)

----------------------------------------------------------------------------
(* The two revisions of the classification, analyze_defects and the earlier *)
(* analyzeDefects, on the same record.                                       *)

\* C19: the two revisions are not equivalent.  On a retained contour they
\* assign different types exactly when analyze_defects finds a scratch
\* ((ar > 2.5 or ar <= 0.70) and area > 5.0) that analyzeDefects does not
\* ((ar > 2.5 or ar < 0.40) and area > 20.0): then analyze_defects says
\* Scratch and analyzeDefects says Cluster or Speck by the area alone.
VariantsDisagree ==
    stored_defects_ # NullPtr =>
        \A i \in 1 .. Len(Deref(stored_defects_)) :
            LET d == Deref(stored_defects_)[i]
                w == d.ar.num
                h == d.ar.den
                old == classify_v1(d.area2, d.ar)
                band == /\ (2 * w > 5 * h \/ 10 * w <= 7 * h) /\ d.area2 > 10
                        /\ ~((2 * w > 5 * h \/ 10 * w < 4 * h) /\ d.area2 > 40)
            IN  /\ (d.type # old) <=> band
                /\ band => /\ d.type = "scratch"
                           /\ old = IF d.area2 > 300 THEN "cluster" ELSE "speck"

\* a contour of aspect ratio exactly 0.70 and area above 20 is a Scratch for
\* analyze_defects and a Speck for analyzeDefects
VariantsDisagreeWitness ==
    /\ stored_defects_ # NullPtr
    /\ \E i \in 1 .. Len(Deref(stored_defects_)) :
          LET d == Deref(stored_defects_)[i]
          IN  /\ 10 * d.ar.num = 7 * d.ar.den
              /\ d.area2 > 40
              /\ d.type = "scratch"
              /\ classify_v1(d.area2, d.ar) = "speck"

----------------------------------------------------------------------------
(* The divisors of analyze_defects: m00 of the centroid, max(h, 1) of the    *)
(* aspect ratio.                                                             *)

\* C20: every contour of area >= 2.0 has a zeroth moment m00 that is not 0,
\* and every record's centre is a quotient by that m00, which equals the
\* record's area; the divisor max(height, 1) of the aspect ratio is at least 1.
NonZeroDivisors ==
    /\ \A j \in 1 .. Len(contours) :
          contourArea2(contours[j]) >= 4 => moments(contours[j]).m00x6 # 0
    /\ stored_defects_ # NullPtr =>
          \A i \in 1 .. Len(Deref(stored_defects_)) :
              LET d == Deref(stored_defects_)[i]
              IN  /\ d.center.den # 0
                  /\ d.center.den = 3 * d.area2
                  /\ d.area2 >= 4
                  /\ d.ar.den >= 1
                  /\ d.ar.den = SetMax({d.boundingBox.height, 1})

\* a contour of area exactly 2.0 has a record with a centre, and a contour of
\* area 0, whose m00 is 0, has none
NonZeroDivisorsWitness ==
    /\ stored_defects_ # NullPtr
    /\ Len(contours) = 2
    /\ contourArea2(contours[1]) = 4
    /\ moments(contours[2]).m00x6 = 0
    /\ Len(Deref(stored_defects_)) = 1
    /\ Deref(stored_defects_)[1].center.den = 12

----------------------------------------------------------------------------
(* The numeric controls and the analysis shown.                              *)

\* C23: whenever a verdict is shown, the verdict and the defect cards are
\* those of the analysis of the loaded image with the current values of
\* nud_blur_ and nud_threshold_.
ShownAnalysisIsCurrent ==
    lbl_verdict_ # NoVerdict =>
        LET a == AnalysisOf[<<Deref(stored_gray_), nud_blur_, nud_threshold_>>]
        IN  /\ lbl_verdict_ = a.verdict
            /\ flp_defects_ = a.cards

----------------------------------------------------------------------------
(* Lines 255-276 of btn_analyze_click taken alone: analyze_defects, the      *)
(* pixel counts, the verdict and the cards, on a candidate mask made of up   *)
(* to three solid shapes inside a lens of any size.                          *)

\* cv::countNonZero of the solid shape whose contour is c: the pixels inside
\* and on the polygon, area + boundary / 2 + 1, where a segment of a contour
\* is horizontal, vertical or diagonal and passes max(|dx|, |dy|) pixels
PixelCount(c) ==
    LET boundary ==
            SeqSum([i \in 1 .. Len(c) |->
                      SetMax({Abs(c[i].x - c[PrevIndex(c, i)].x),
                              Abs(c[i].y - c[PrevIndex(c, i)].y)})])
    IN  (contourArea2(c) + boundary) \div 2 + 1

ReportContours ==
    {RectContour(w, h) : w \in 1 .. MaxSecond, h \in 1 .. MaxSecond}
        \cup {TriContour(2)}

ReportLists ==
    {<< >>}
        \cup {<< c >> : c \in ReportContours}
        \cup {<< c, d >> : c \in ReportContours, d \in ReportContours}
        \cup {<< c, d, e >> : c \in ReportContours, d \in ReportContours,
                               e \in {RectContour(1, 1), RectContour(3, 3),
                                       TriContour(2)}}

ReportInit ==
    /\ has_image_ = TRUE
    /\ btn_analyze_enabled = TRUE
    /\ stored_gray_ = NullPtr
    /\ stored_mask_ = NullPtr
    /\ stored_corrected_ = NullPtr
    /\ stored_defects_ = NullPtr
    /\ nud_blur_ = 0
    /\ nud_threshold_ = NudThresholdMin
    /\ blur_size = 0
    /\ defect_mask = NoMat
    /\ contours \in ReportLists
    /\ defect_pixels =
          SeqSum([i \in 1 .. Len(contours) |-> PixelCount(contours[i])])
    /\ lens_pixels \in {defect_pixels, 200000 * defect_pixels,
                         200000 * defect_pixels + 1}
    /\ ratio = RatioOf(0, 0)
    /\ pass = FALSE
    /\ lbl_verdict_ = NoVerdict
    /\ flp_defects_ = << >>
    /\ morph_mask = NoMat
    /\ divided = NoMat
    /\ NoView
    /\ NoLocals

\* lines 255-276 of btn_analyze_click
ReportStage ==
    LET defects == analyze_contours(contours)
        r == RatioOf(lens_pixels, defect_pixels)
        ok == PassOf(r)
    IN  /\ stored_defects_' = New(defects)
        /\ ratio' = r
        /\ pass' = ok
        /\ lbl_verdict_' = VerdictText(ok, Len(defects), r)
        /\ flp_defects_' = populate_defect_list(defects)
        /\ UNCHANGED << stage_locals, view, has_image_, btn_analyze_enabled,
                        stored_gray_, stored_mask_, stored_corrected_,
                        nud_blur_, nud_threshold_, blur_size, defect_mask,
                        contours, lens_pixels, defect_pixels >>

SpecReport == ReportInit /\ [][ReportStage]_vars

\* C21: the defect list holds one record for each contour of area >= 2.0 and
\* none for the others, in the order of the contours; the number of defects
\* in the verdict and the number of cards equal its length.
OneRecordPerContour ==
    stored_defects_ # NullPtr =>
        LET ds == Deref(stored_defects_)
            kept == SelectSeq(contours, LAMBDA c : contourArea2(c) >= 4)
        IN  /\ Len(ds) = Len(kept)
            /\ \A i \in 1 .. Len(ds) :
                  /\ ds[i].area2 = contourArea2(kept[i])
                  /\ ds[i].boundingBox = boundingRect(kept[i])
            /\ lbl_verdict_.defects = Len(ds)
            /\ Len(flp_defects_) = Len(ds)

\* of three contours the first and the third survive, with different areas,
\* and the verdict shows two defects
OneRecordPerContourWitness ==
    /\ stored_defects_ # NullPtr
    /\ Len(contours) = 3
    /\ contourArea2(contours[2]) < 4
    /\ Len(Deref(stored_defects_)) = 2
    /\ Deref(stored_defects_)[1].area2 # Deref(stored_defects_)[2].area2
    /\ lbl_verdict_.defects = 2
    /\ lbl_verdict_.verdict = "Y"

----------------------------------------------------------------------------
(* The verdict and the defect list.                                          *)

\* C26: the verdict shown is computed from the pixel counts of the lens mask
\* and of the candidate mask alone: pass iff count(candidate) /
\* max(count(lens), 1) < 0.000005, whatever the defect list holds; the pixels
\* of a contour that the area floor drops are pixels of the candidate mask
\* and are counted.
VerdictFromPixelCounts ==
    lbl_verdict_ # NoVerdict =>
        LET lens == countNonZero(Deref(stored_mask_))
            defect == countNonZero(defect_mask)
        IN  /\ lens_pixels = lens
            /\ defect_pixels = defect
            /\ pass <=> defect * 1000000 < 5 * SetMax({lens, 1})
            /\ lbl_verdict_.verdict = IF pass THEN "Y" ELSE "N"
            /\ lbl_verdict_.defects = Len(Deref(stored_defects_))
            /\ \A j \in 1 .. Len(contours) :
                  contourArea2(contours[j]) < 4 =>
                      \A k \in 1 .. Len(contours[j]) :
                          defect_mask[<<contours[j][k].y, contours[j][k].x>>] # 0

\* an analysis is shown that fails with no defect in the list: every contour
\* of the candidate mask is below the area floor
VerdictFromPixelCountsWitness ==
    /\ lbl_verdict_ # NoVerdict
    /\ pass = FALSE
    /\ lbl_verdict_.verdict = "N"
    /\ lbl_verdict_.defects = 0
    /\ Deref(stored_defects_) = << >>
    /\ Len(contours) > 0

----------------------------------------------------------------------------
(* The crop rectangles of select_defect and populate_defect_list.           *)

\* the crop without the clamp of its origin at 0
crop_rect_unclamped(center, size, padding) ==
    LET x == center.xnum \div center.den - padding
        y == center.ynum \div center.den - padding
    IN  [x |-> x,
         y |-> y,
         width |-> SetMin({size.cols - x, padding * 2}),
         height |-> SetMin({size.rows - y, padding * 2})]

\* int x = std::max<float> (0, (int) d.center.x - padding), the same for y;
\* int w = std::min<float> (cols - x, padding * 2), the same for h.  (int) of
\* a non-negative float truncates to the floor.
crop_rect(center, size, padding) ==
    LET x == SetMax({0, center.xnum \div center.den - padding})
        y == SetMax({0, center.ynum \div center.den - padding})
    IN  [x |-> x,
         y |-> y,
         width |-> SetMin({size.cols - x, padding * 2}),
         height |-> SetMin({size.rows - y, padding * 2})]

\* a corrected image of any size around the two paddings and a defect center
\* inside it, at whole and at half pixels
CropInit ==
    /\ has_image_ = TRUE
    /\ btn_analyze_enabled = TRUE
    /\ stored_gray_ = NullPtr
    /\ stored_mask_ = NullPtr
    /\ nud_blur_ = 0
    /\ nud_threshold_ = NudThresholdMin
    /\ NoAnalysis
    /\ lbl_verdict_ = NoVerdict
    /\ flp_defects_ = << >>
    /\ morph_mask = NoMat
    /\ divided = NoMat
    /\ NoView
    /\ pc = "idle"
    /\ dialog_result = "None"
    /\ load_img = NoMat
    /\ corrected_size \in
          [cols : {1, 30, 31, 60, 61, 100, 101, MaxImage},
           rows : {1, 50, 61, 101, MaxImage}]
    /\ d_center \in
          {c \in [xnum : {0, 1, 58, 59, 60, 61, 99, 100, 101, 201, 319},
                  ynum : {0, 59, 60, 99, 100, 101, 319},
                  den : {2}] :
              /\ c.xnum < 2 * corrected_size.cols
              /\ c.ynum < 2 * corrected_size.rows}
    /\ crop = [x |-> 0, y |-> 0, width |-> 0, height |-> 0]
    /\ thumb = [x |-> 0, y |-> 0, width |-> 0, height |-> 0]
    /\ me = [X |-> 0, Y |-> 0]
    /\ select_idx = 0

\* lines 102-106 of select_defect and lines 148-152 of populate_defect_list
CropStage ==
    /\ crop.width = 0
    /\ crop' = crop_rect(d_center, corrected_size, 50)
    /\ thumb' = crop_rect(d_center, corrected_size, 30)
    /\ UNCHANGED << pc, dialog_result, load_img, corrected_size, d_center,
                    me, select_idx, morph_mask, divided, view, has_image_,
                    btn_analyze_enabled, stored_gray_, stored_mask_,
                    nud_blur_, nud_threshold_, lbl_verdict_, flp_defects_,
                    analysis >>

SpecCrop == CropInit /\ [][CropStage]_vars

\* C29: for a defect center inside the corrected image the zoom crop of
\* select_defect (padding 50) and the thumbnail crop of populate_defect_list
\* (padding 30) have x >= 0, y >= 0, 1 <= w <= 2 * padding,
\* 1 <= h <= 2 * padding, x + w <= cols and y + h <= rows.
CropInsideImage ==
    crop.width # 0 =>
        /\ 0 <= d_center.xnum /\ d_center.xnum < d_center.den * corrected_size.cols
        /\ 0 <= d_center.ynum /\ d_center.ynum < d_center.den * corrected_size.rows
        /\ crop.x >= 0 /\ crop.y >= 0
        /\ 1 <= crop.width /\ crop.width <= 100
        /\ 1 <= crop.height /\ crop.height <= 100
        /\ crop.x + crop.width <= corrected_size.cols
        /\ crop.y + crop.height <= corrected_size.rows
        /\ thumb.x >= 0 /\ thumb.y >= 0
        /\ 1 <= thumb.width /\ thumb.width <= 60
        /\ 1 <= thumb.height /\ thumb.height <= 60
        /\ thumb.x + thumb.width <= corrected_size.cols
        /\ thumb.y + thumb.height <= corrected_size.rows

\* a center at the left edge of a wide image and near the bottom of it: the
\* zoom crop is clamped at x = 0 and cut short by the last row, the thumbnail
\* has its full width
CropInsideImageWitness ==
    /\ crop.width # 0
    /\ d_center.xnum = 1
    /\ crop.x = 0 /\ crop.width = 100
    /\ crop.y > 0 /\ crop.height < 100
    /\ crop.y + crop.height = corrected_size.rows
    /\ thumb.x = 0 /\ thumb.width = 60
    /\ thumb.y > crop.y

----------------------------------------------------------------------------
(* The session: loading with its outcomes exposed, analysis, and the two    *)
(* handlers that select a defect.                                           *)

\* a / b < c / d for a, c >= 0 and b, d > 0, by the integer parts and then the
\* inverted remainders (the products a * d and c * b may not fit an int)
RECURSIVE RatLess(_, _, _, _)
RatLess(a, b, c, d) ==
    IF a \div b # c \div d THEN a \div b < c \div d
    ELSE IF c % d = 0 THEN FALSE
    ELSE IF a % b = 0 THEN TRUE
    ELSE RatLess(d, c % d, b, a % b)

\* lines 287-312 of pb_analyzed_click: the click in image coordinates, 70
\* rows taken off, and the first defect whose center is nearest to that
\* point.  The picture box is 500 x 500; the clicks of the model lie on whole
\* image pixels (for sides that divide 500), where the float arithmetic of
\* the code is exact.
nearest_idx(defects, size, m) ==
    LET longest == SetMax({size.cols, size.rows})
        off_x == (500 - (size.cols * 500) \div longest) \div 2
        off_y == (500 - (size.rows * 500) \div longest) \div 2
        img_x == ((m.X - off_x) * longest) \div 500
        img_y == ((m.Y - off_y) * longest) \div 500 - 70
        dist2(i) ==
            LET c == defects[i].center
            IN  (c.xnum - img_x * c.den) * (c.xnum - img_x * c.den)
                    + (c.ynum - img_y * c.den) * (c.ynum - img_y * c.den)
        den2(i) == defects[i].center.den * defects[i].center.den
        nearer(i, j) == RatLess(dist2(i), den2(i), dist2(j), den2(j))
    IN  (CHOOSE i \in 1 .. Len(defects) :
            /\ \A j \in 1 .. i - 1 : nearer(i, j)
            /\ \A j \in i + 1 .. Len(defects) : ~nearer(j, i)) - 1

\* select_defect: the crop of the corrected image around the defect, the
\* marker on the zoomed crop, and the text of the defect.  An index outside
\* the list, or a null list or image, is undefined behaviour.
select_defect(i) ==
    /\ select_idx' = i
    /\ IF \/ stored_defects_ = NullPtr
          \/ stored_corrected_ = NullPtr
          \/ i < 0
          \/ i >= Len(Deref(stored_defects_))
       THEN /\ pc' = "undefined"
            /\ pb_zoom_' \in {NullPtr, pb_zoom_}
            /\ lbl_defect_info_' \in {[text |-> ""], lbl_defect_info_}
            /\ UNCHANGED << corrected_size, d_center, crop >>
       ELSE LET d == Deref(stored_defects_)[i + 1]
                size == [cols |-> Cols, rows |-> Rows]
                r == crop_rect(d.center, size, 50)
            IN  /\ corrected_size' = size
                /\ d_center' = d.center
                /\ crop' = r
                /\ pb_zoom_' =
                      New([order |-> "RGB",
                           crop |-> [p \in (0 .. r.height - 1)
                                             \X (0 .. r.width - 1) |->
                                        Deref(stored_corrected_)
                                            [<<r.y + p[1], r.x + p[2]>>]],
                           size |-> 320,
                           marker |->
                              [x |-> (320 * (d.center.xnum
                                                - r.x * d.center.den))
                                         \div (d.center.den * r.width),
                               y |-> (320 * (d.center.ynum
                                                - r.y * d.center.den))
                                         \div (d.center.den * r.height)]])
                /\ lbl_defect_info_' =
                      [text |-> "Defect #{0}",
                       index |-> i + 1,
                       type |-> d.type,
                       area2 |-> d.area2,
                       center |-> d.center,
                       ar |-> d.ar]
                /\ UNCHANGED pc
    /\ UNCHANGED << dialog_result, load_img, thumb, morph_mask, divided,
                    stored_display_, pb_original_, pb_analyzed_, has_image_,
                    btn_analyze_enabled, stored_gray_, stored_mask_,
                    nud_blur_, nud_threshold_, lbl_verdict_, flp_defects_,
                    analysis >>

\* defect_card_click: the Tag of the card that was clicked
defect_card_click ==
    \E k \in 1 .. Len(flp_defects_) :
        /\ select_defect(flp_defects_[k])
        /\ UNCHANGED me

\* pb_analyzed_click without the test for an empty list
pb_analyzed_click_unguarded ==
    IF ~has_image_ \/ stored_defects_ = NullPtr
    THEN UNCHANGED vars
    ELSE \E m \in [X : {(k * 500) \div Cols : k \in 0 .. Cols - 1},
                     Y : {(k * 500) \div Rows : k \in {0, Rows - 1}}] :
            /\ me' = m
            /\ select_defect(
                  IF Deref(stored_defects_) = << >> THEN 0
                  ELSE nearest_idx(Deref(stored_defects_),
                                   [cols |-> Cols, rows |-> Rows], m))

\* pb_analyzed_click: stored_display_ has the size of the corrected image
pb_analyzed_click ==
    IF \/ ~has_image_
       \/ stored_defects_ = NullPtr
       \/ Deref(stored_defects_) = << >>
    THEN UNCHANGED vars
    ELSE \E m \in [X : {(k * 500) \div Cols : k \in 0 .. Cols - 1},
                     Y : {(k * 500) \div Rows : k \in {0, Rows - 1}}] :
            /\ me' = m
            /\ select_defect(nearest_idx(Deref(stored_defects_),
                                         [cols |-> Cols, rows |-> Rows], m))

\* btn_load_click that clears the verdict and the cards before it decodes
btn_load_click_clears ==
    \E r \in {"Cancel", "OK"} :
        \E img \in {NoMat, GrayBmp(Uniform(200)),
                    GrayBmp(FeatureRaster(200, 255,
                                          [r0 |-> 1, c0 |-> 1, h |-> 1, w |-> 1])),
                    GrayBmp(FeatureRaster(200, 255,
                                          [r0 |-> 1, c0 |-> 1, h |-> 2, w |-> 1]))} :
            /\ dialog_result' = r
            /\ load_img' = IF r = "OK" THEN img ELSE NoMat
            /\ IF r # "OK"
               THEN UNCHANGED << view, has_image_, btn_analyze_enabled,
                                 stored_gray_, stored_mask_, lbl_verdict_,
                                 flp_defects_ >>
               ELSE IF img = NoMat
               THEN /\ lbl_verdict_' = NoVerdict
                    /\ flp_defects_' = << >>
                    /\ UNCHANGED << view, has_image_, btn_analyze_enabled,
                                    stored_gray_, stored_mask_ >>
               ELSE LET gray == cvtColorBGR2GRAY(img)
                    IN  /\ stored_gray_' = New(gray)
                        /\ stored_mask_' = New(LensMaskOf[gray])
                        /\ pb_original_' = New(img)
                        /\ pb_analyzed_' = NullPtr
                        /\ pb_zoom_' = NullPtr
                        /\ lbl_verdict_' = NoVerdict
                        /\ lbl_defect_info_' =
                              [text |-> "Click a defect on the right\nimage to inspect it here"]
                        /\ flp_defects_' = << >>
                        /\ has_image_' = TRUE
                        /\ btn_analyze_enabled' = TRUE
                        /\ UNCHANGED stored_display_
            /\ UNCHANGED << pc, corrected_size, d_center, crop, thumb, me,
                            select_idx, morph_mask, divided, nud_blur_,
                            nud_threshold_, analysis >>

\* btn_load_click that drops the results of the previous analysis
btn_load_click_resets ==
    \E r \in {"Cancel", "OK"} :
        \E img \in {NoMat, GrayBmp(Uniform(200)),
                    GrayBmp(FeatureRaster(200, 255,
                                          [r0 |-> 1, c0 |-> 1, h |-> 1, w |-> 1])),
                    GrayBmp(FeatureRaster(200, 255,
                                          [r0 |-> 1, c0 |-> 1, h |-> 2, w |-> 1]))} :
            /\ dialog_result' = r
            /\ load_img' = IF r = "OK" THEN img ELSE NoMat
            /\ IF r # "OK" \/ img = NoMat
               THEN UNCHANGED << view, has_image_, btn_analyze_enabled,
                                 stored_gray_, stored_mask_, lbl_verdict_,
                                 flp_defects_, stored_corrected_,
                                 stored_defects_ >>
               ELSE LET gray == cvtColorBGR2GRAY(img)
                    IN  /\ stored_gray_' = New(gray)
                        /\ stored_mask_' = New(LensMaskOf[gray])
                        /\ stored_corrected_' = NullPtr
                        /\ stored_defects_' = NullPtr
                        /\ stored_display_' = NullPtr
                        /\ pb_original_' = New(img)
                        /\ pb_analyzed_' = NullPtr
                        /\ pb_zoom_' = NullPtr
                        /\ lbl_verdict_' = NoVerdict
                        /\ lbl_defect_info_' =
                              [text |-> "Click a defect on the right\nimage to inspect it here"]
                        /\ flp_defects_' = << >>
                        /\ has_image_' = TRUE
                        /\ btn_analyze_enabled' = TRUE
            /\ UNCHANGED << pc, corrected_size, d_center, crop, thumb, me,
                            select_idx, morph_mask, divided, nud_blur_,
                            nud_threshold_, blur_size, defect_mask, contours,
                            lens_pixels, defect_pixels, ratio, pass >>

\* btn_load_click with what the dialog returned and what cv::imread decoded
\* (NoMat when it decoded nothing) kept in dialog_result and load_img
btn_load_click_outcome ==
    \E r \in {"Cancel", "OK"} :
        \E img \in {NoMat, GrayBmp(Uniform(200)),
                    GrayBmp(FeatureRaster(200, 255,
                                          [r0 |-> 1, c0 |-> 1, h |-> 1, w |-> 1])),
                    GrayBmp(FeatureRaster(200, 255,
                                          [r0 |-> 1, c0 |-> 1, h |-> 2, w |-> 1]))} :
            /\ dialog_result' = r
            /\ load_img' = IF r = "OK" THEN img ELSE NoMat
            /\ IF r # "OK" \/ img = NoMat
               THEN UNCHANGED << view, has_image_, btn_analyze_enabled,
                                 stored_gray_, stored_mask_, lbl_verdict_,
                                 flp_defects_ >>
               ELSE LET gray == cvtColorBGR2GRAY(img)
                    IN  /\ stored_gray_' = New(gray)
                        /\ stored_mask_' = New(LensMaskOf[gray])
                        /\ pb_original_' = New(img)
                        /\ pb_analyzed_' = NullPtr
                        /\ pb_zoom_' = NullPtr
                        /\ lbl_verdict_' = NoVerdict
                        /\ lbl_defect_info_' =
                              [text |-> "Click a defect on the right\nimage to inspect it here"]
                        /\ flp_defects_' = << >>
                        /\ has_image_' = TRUE
                        /\ btn_analyze_enabled' = TRUE
                        /\ UNCHANGED stored_display_
            /\ UNCHANGED << pc, corrected_size, d_center, crop, thumb, me,
                            select_idx, morph_mask, divided, nud_blur_,
                            nud_threshold_, analysis >>

SessionNext ==
    \/ btn_load_click_outcome
    \/ btn_analyze_click
    \/ defect_card_click
    \/ pb_analyzed_click

SpecSession == Init /\ [][SessionNext]_vars

\* C27: a run of btn_load_click in which the dialog is cancelled or
\* cv::imread returns an empty image leaves has_image_, the stored grayscale
\* image, the stored mask, the stored analysis results, the displayed images
\* and the enabled state of the analyze button unchanged; has_image_ becomes
\* true only in a run that decoded an image, and never returns to false.
FailedLoadChangesNothing ==
    [][/\ (/\ << dialog_result, load_img >>' # << dialog_result, load_img >>
           /\ (dialog_result' = "Cancel" \/ load_img' = NoMat))
          => UNCHANGED << has_image_, btn_analyze_enabled, stored_gray_,
                          stored_mask_, analysis, view, lbl_verdict_,
                          flp_defects_ >>
       /\ has_image_ => has_image_'
       /\ (~has_image_ /\ has_image_')
          => /\ dialog_result' = "OK"
             /\ load_img' # NoMat
             /\ stored_gray_' = New(cvtColorBGR2GRAY(load_img'))]_vars

\* an analysis with a defect is shown, a defect is selected, and the latest
\* load failed to decode: the image, the verdict, the cards and the pictures
\* are still there
FailedLoadChangesNothingWitness ==
    /\ has_image_
    /\ load_img = NoMat
    /\ dialog_result = "OK"
    /\ lbl_verdict_ # NoVerdict
    /\ flp_defects_ # << >>
    /\ stored_gray_ # NullPtr
    /\ pb_analyzed_ # NullPtr
    /\ pb_zoom_ # NullPtr
    /\ btn_analyze_enabled

\* C25: a load that replaces the stored grayscale image and the lens mask
\* leaves stored_corrected_, stored_defects_ and stored_display_ as they
\* were, and every selection shows a defect of the stored list and a crop of
\* the stored corrected image, so that after Load(A), Analyze, Load(B) a
\* click on the analysed picture shows a defect and a crop computed from A
\* while B is the loaded image.
LoadKeepsPreviousAnalysis ==
    [][/\ (stored_gray_' # stored_gray_ \/ stored_mask_' # stored_mask_)
          => /\ load_img' # NoMat
             /\ stored_gray_' = New(cvtColorBGR2GRAY(load_img'))
             /\ UNCHANGED << stored_corrected_, stored_defects_,
                             stored_display_ >>
       /\ (pb_zoom_' # NullPtr /\ pb_zoom_' # pb_zoom_)
          => /\ has_image_
             /\ stored_defects_ # NullPtr
             /\ stored_corrected_ # NullPtr
             /\ select_idx' \in 0 .. Len(Deref(stored_defects_)) - 1
             /\ lbl_defect_info_'.index = select_idx' + 1
             /\ lbl_defect_info_'.center =
                   Deref(stored_defects_)[select_idx' + 1].center
             /\ \A p \in DOMAIN Deref(pb_zoom_').crop :
                   Deref(pb_zoom_').crop[p] =
                       Deref(stored_corrected_)[<<crop'.y + p[1],
                                                  crop'.x + p[2]>>]]_vars

\* image B is loaded and not analysed, its analysis with the values of the
\* controls would find no defect and another corrected image, and the zoom
\* picture and the text show a defect of the analysis of image A
LoadKeepsPreviousAnalysisWitness ==
    /\ has_image_
    /\ lbl_verdict_ = NoVerdict
    /\ pb_analyzed_ = NullPtr
    /\ pb_zoom_ # NullPtr
    /\ lbl_defect_info_.text = "Defect #{0}"
    /\ me.X > 0
    /\ LET b == AnalysisOf[<<Deref(stored_gray_), nud_blur_, nud_threshold_>>]
       IN  /\ b.defects = << >>
           /\ b.corrected # Deref(stored_corrected_)
           /\ Deref(pb_zoom_).crop # b.corrected
           /\ Deref(stored_defects_) # << >>
           /\ lbl_defect_info_.center = Deref(stored_defects_)[1].center

\* C28 (the part that holds): select_defect never runs with a null list, a
\* null corrected image or an index outside the list; the cards carry the
\* indices 0 .. n - 1 of the stored defect list and exist only while the
\* verdict of that list is shown.
SelectDefectInRange ==
    /\ [][/\ pc' # "undefined"
          /\ (pb_zoom_' # NullPtr /\ pb_zoom_' # pb_zoom_)
             => /\ stored_defects_ # NullPtr
                /\ stored_corrected_ # NullPtr
                /\ 0 <= select_idx'
                /\ select_idx' < Len(Deref(stored_defects_))]_vars
    /\ [](flp_defects_ # << >>
            => /\ lbl_verdict_ # NoVerdict
               /\ stored_defects_ # NullPtr
               /\ stored_corrected_ # NullPtr
               /\ flp_defects_ =
                     [i \in 1 .. Len(Deref(stored_defects_)) |-> i - 1])

----------------------------------------------------------------------------
(* pb_analyzed_click taken alone: a list of two or three defects of a       *)
(* larger image and a click.  The rasters are left out.                     *)

PickInit ==
    /\ has_image_ = TRUE
    /\ btn_analyze_enabled = TRUE
    /\ stored_gray_ = NullPtr
    /\ stored_mask_ = NullPtr
    /\ stored_corrected_ = NullPtr
    /\ nud_blur_ = 0
    /\ nud_threshold_ = NudThresholdMin
    /\ blur_size = 0
    /\ defect_mask = NoMat
    /\ contours \in
          LET at(c, o) == [k \in 1 .. Len(c) |-> Pt(c[k].x + o[1], c[k].y + o[2])]
              places == {<<100, 100>>, <<120, 100>>, <<100, 170>>}
              shapes == {RectContour(3, 2), RectContour(MaxSecond, MaxSecond)}
          IN  {<< at(c, o), at(d, p) >> :
                  <<c, d>> \in shapes \X shapes,
                  <<o, p>> \in {q \in places \X places : q[1] # q[2]}}
                \cup {<< at(c, <<100, 100>>), at(d, <<120, 100>>),
                         at(RectContour(3, 2), <<100, 170>>) >> :
                        <<c, d>> \in shapes \X shapes}
    /\ stored_defects_ = New(analyze_contours(contours))
    /\ lens_pixels = 0
    /\ defect_pixels = 0
    /\ ratio = RatioOf(0, 0)
    /\ pass = FALSE
    /\ lbl_verdict_ = NoVerdict
    /\ flp_defects_ = populate_defect_list(Deref(stored_defects_))
    /\ morph_mask = NoMat
    /\ divided = NoMat
    /\ NoView
    /\ pc = "idle"
    /\ dialog_result = "None"
    /\ load_img = NoMat
    /\ corrected_size \in {[cols |-> 500, rows |-> 500],
                           [cols |-> 1000, rows |-> 500]}
    /\ d_center = [xnum |-> 0, ynum |-> 0, den |-> 1]
    /\ crop = [x |-> 0, y |-> 0, width |-> 0, height |-> 0]
    /\ thumb = [x |-> 0, y |-> 0, width |-> 0, height |-> 0]
    /\ me = [X |-> 0, Y |-> 0]
    /\ select_idx = 0

\* lines 282-314 of pb_analyzed_click, up to the call of select_defect
PickStage ==
    IF \/ ~has_image_
       \/ stored_defects_ = NullPtr
       \/ Deref(stored_defects_) = << >>
    THEN UNCHANGED vars
    ELSE \E m \in [X : {50, 55, 101, 111, 121, 222}, Y : {100, 168, 175, 210}] :
            /\ me' = m
            /\ select_idx' = nearest_idx(Deref(stored_defects_),
                                         corrected_size, m)
            /\ pc' = "select_defect"
            /\ UNCHANGED << dialog_result, load_img, corrected_size,
                            d_center, crop, thumb, morph_mask, divided, view,
                            has_image_, btn_analyze_enabled, stored_gray_,
                            stored_mask_, nud_blur_, nud_threshold_,
                            lbl_verdict_, flp_defects_, analysis >>

SpecPick == PickInit /\ [][PickStage]_vars

\* C28: pb_analyzed_click calls select_defect with the index of a defect at
\* minimal distance from the click, the lowest index on ties.
NearestToClick ==
    pc = "select_defect" =>
        LET ds == Deref(stored_defects_)
            longest == SetMax({corrected_size.cols, corrected_size.rows})
            off_x == (500 - (corrected_size.cols * 500) \div longest) \div 2
            off_y == (500 - (corrected_size.rows * 500) \div longest) \div 2
            click_x == ((me.X - off_x) * longest) \div 500
            click_y == ((me.Y - off_y) * longest) \div 500
            dist2(i) ==
                (ds[i].center.xnum - click_x * ds[i].center.den)
                        * (ds[i].center.xnum - click_x * ds[i].center.den)
                    + (ds[i].center.ynum - click_y * ds[i].center.den)
                        * (ds[i].center.ynum - click_y * ds[i].center.den)
            den2(i) == ds[i].center.den * ds[i].center.den
            nearer(i, j) == RatLess(dist2(i), den2(i), dist2(j), den2(j))
        IN  /\ select_idx \in 0 .. Len(ds) - 1
            /\ \A j \in 1 .. Len(ds) : ~nearer(j, select_idx + 1)
            /\ \A j \in 1 .. select_idx : nearer(select_idx + 1, j)

----------------------------------------------------------------------------
(* btn_analyze_click stage by stage: pc names the stage that returned last, *)
(* and every stage reads what the stages before it stored.                  *)

\* line 253 run on the grayscale image instead of the corrected one
StageExtractFromGray ==
    /\ pc = "correct"
    /\ pc' = "extract"
    /\ defect_mask' = detect_defects(Deref(stored_gray_), Deref(stored_mask_),
                                     nud_threshold_)
    /\ UNCHANGED << dialog_result, load_img, corrected_size, d_center, crop,
                    thumb, me, select_idx, morph_mask, divided, view,
                    has_image_, btn_analyze_enabled, stored_gray_,
                    stored_mask_, nud_blur_, nud_threshold_, lbl_verdict_,
                    flp_defects_, stored_corrected_, stored_defects_,
                    blur_size, contours, lens_pixels, defect_pixels, ratio,
                    pass >>

\* lines 262-276 with the overlay drawn on the corrected image itself
StageDisplayInPlace ==
    /\ pc = "verdict"
    /\ pc' = "display"
    /\ LET drawn ==
              Mat([p \in Pix |->
                      IF \E c \in DOMAIN findContours(Deref(stored_mask_)) :
                            \E k \in DOMAIN findContours(Deref(stored_mask_))[c] :
                               findContours(Deref(stored_mask_))[c][k]
                                   = Pt(p[2], p[1])
                      THEN 150
                      ELSE Deref(stored_corrected_)[p]])
           display ==
              build_annotated_display(drawn, Deref(stored_mask_),
                                      Deref(stored_defects_), pass, ratio)
       IN  /\ stored_corrected_' = New(drawn)
           /\ stored_display_' = New(display)
           /\ pb_analyzed_' = New(mat_to_bitmap(display))
    /\ lbl_verdict_' = VerdictText(pass, Len(Deref(stored_defects_)), ratio)
    /\ flp_defects_' = populate_defect_list(Deref(stored_defects_))
    /\ UNCHANGED << dialog_result, load_img, corrected_size, d_center, crop,
                    thumb, me, select_idx, morph_mask, divided, pb_original_,
                    pb_zoom_, lbl_defect_info_, has_image_,
                    btn_analyze_enabled, stored_gray_, stored_mask_,
                    nud_blur_, nud_threshold_, stored_defects_, blur_size,
                    defect_mask, contours, lens_pixels, defect_pixels, ratio,
                    pass >>

\* lines 244-251: the guard, the two controls, correct_illumination
StageCorrect ==
    /\ pc \in {"idle", "display"}
    /\ IF ~has_image_
       THEN UNCHANGED vars
       ELSE /\ pc' = "correct"
            /\ blur_size' = OddBlurSize(nud_blur_)
            /\ stored_corrected_' =
                  New(correct_illumination(Deref(stored_gray_),
                                           Deref(stored_mask_), nud_blur_))
            /\ UNCHANGED << dialog_result, load_img, corrected_size,
                            d_center, crop, thumb, me, select_idx,
                            morph_mask, divided, view, has_image_,
                            btn_analyze_enabled, stored_gray_, stored_mask_,
                            nud_blur_, nud_threshold_, lbl_verdict_,
                            flp_defects_, stored_defects_, defect_mask,
                            contours, lens_pixels, defect_pixels, ratio,
                            pass >>

\* line 253: detect_defects
StageExtract ==
    /\ pc = "correct"
    /\ pc' = "extract"
    /\ defect_mask' = detect_defects(Deref(stored_corrected_),
                                     Deref(stored_mask_), nud_threshold_)
    /\ UNCHANGED << dialog_result, load_img, corrected_size, d_center, crop,
                    thumb, me, select_idx, morph_mask, divided, view,
                    has_image_, btn_analyze_enabled, stored_gray_,
                    stored_mask_, nud_blur_, nud_threshold_, lbl_verdict_,
                    flp_defects_, stored_corrected_, stored_defects_,
                    blur_size, contours, lens_pixels, defect_pixels, ratio,
                    pass >>

\* line 255: analyze_defects
StageClassify ==
    /\ pc = "extract"
    /\ pc' = "classify"
    /\ contours' = findContours(defect_mask)
    /\ stored_defects_' = New(analyze_contours(findContours(defect_mask)))
    /\ UNCHANGED << dialog_result, load_img, corrected_size, d_center, crop,
                    thumb, me, select_idx, morph_mask, divided, view,
                    has_image_, btn_analyze_enabled, stored_gray_,
                    stored_mask_, nud_blur_, nud_threshold_, lbl_verdict_,
                    flp_defects_, stored_corrected_, blur_size, defect_mask,
                    lens_pixels, defect_pixels, ratio, pass >>

\* lines 257-260: the pixel counts, the ratio and the pass flag
StageVerdict ==
    /\ pc = "classify"
    /\ pc' = "verdict"
    /\ lens_pixels' = countNonZero(Deref(stored_mask_))
    /\ defect_pixels' = countNonZero(defect_mask)
    /\ ratio' = RatioOf(countNonZero(Deref(stored_mask_)),
                        countNonZero(defect_mask))
    /\ pass' = PassOf(RatioOf(countNonZero(Deref(stored_mask_)),
                              countNonZero(defect_mask)))
    /\ UNCHANGED << dialog_result, load_img, corrected_size, d_center, crop,
                    thumb, me, select_idx, morph_mask, divided, view,
                    has_image_, btn_analyze_enabled, stored_gray_,
                    stored_mask_, nud_blur_, nud_threshold_, lbl_verdict_,
                    flp_defects_, stored_corrected_, stored_defects_,
                    blur_size, defect_mask, contours >>

\* lines 262-276: build_annotated_display, the picture, the label, the cards
StageDisplay ==
    /\ pc = "verdict"
    /\ pc' = "display"
    /\ LET display ==
              build_annotated_display(Deref(stored_corrected_),
                                      Deref(stored_mask_),
                                      Deref(stored_defects_), pass, ratio)
       IN  /\ stored_display_' = New(display)
           /\ pb_analyzed_' = New(mat_to_bitmap(display))
    /\ lbl_verdict_' = VerdictText(pass, Len(Deref(stored_defects_)), ratio)
    /\ flp_defects_' = populate_defect_list(Deref(stored_defects_))
    /\ UNCHANGED << dialog_result, load_img, corrected_size, d_center, crop,
                    thumb, me, select_idx, morph_mask, divided, pb_original_,
                    pb_zoom_, lbl_defect_info_, has_image_,
                    btn_analyze_enabled, stored_gray_, stored_mask_,
                    nud_blur_, nud_threshold_, analysis >>

\* the handlers run one at a time: a load starts only between two analyses
StagesNext ==
    \/ pc \in {"idle", "display"} /\ btn_load_click_outcome
    \/ StageCorrect
    \/ StageExtract
    \/ StageClassify
    \/ StageVerdict
    \/ StageDisplay

SpecStages == Init /\ [][StagesNext]_vars

\* C22: the stages of an analysis run in the order correct, extract,
\* classify, verdict, display, each on what the stage before it stored; the
\* lens mask of the loaded image exists before the first of them starts, and
\* without a loaded image no stage runs; the result of the five stages is
\* that of the whole computation on the loaded image and the two controls.
StageOrdering ==
    /\ [][/\ pc' # pc
             => << pc, pc' >> \in {<< "idle", "correct" >>,
                                   << "display", "correct" >>,
                                   << "correct", "extract" >>,
                                   << "extract", "classify" >>,
                                   << "classify", "verdict" >>,
                                   << "verdict", "display" >>}
          /\ pc' = "correct" /\ pc' # pc
             => /\ has_image_
                /\ stored_mask_ = New(LensMaskOf[Deref(stored_gray_)])
          /\ pc' = "extract" /\ pc' # pc
             => defect_mask' =
                    detect_defects(Deref(stored_corrected_),
                                   Deref(stored_mask_), nud_threshold_)
          /\ pc' = "classify" /\ pc' # pc
             => stored_defects_' =
                    New(analyze_contours(findContours(defect_mask)))
          /\ pc' = "verdict" /\ pc' # pc
             => ratio' = RatioOf(countNonZero(Deref(stored_mask_)),
                                 countNonZero(defect_mask))
          /\ pc' = "display" /\ pc' # pc
             => LET a == AnalysisOf[<<Deref(stored_gray_), nud_blur_,
                                      nud_threshold_>>]
                IN  /\ stored_corrected_' = New(a.corrected)
                    /\ defect_mask' = a.defect_mask
                    /\ stored_defects_' = New(a.defects)
                    /\ pass' = a.pass
                    /\ stored_display_' = New(a.display)
                    /\ lbl_verdict_' = a.verdict
                    /\ flp_defects_' = a.cards
          /\ pc \notin {"idle", "display"}
             => UNCHANGED << has_image_, stored_gray_, stored_mask_,
                             nud_blur_, nud_threshold_ >>]_vars
    /\ [](pc # "idle" => has_image_)

\* an analysis went through its five stages and found a defect
StageOrderingWitness ==
    /\ pc = "display"
    /\ stored_defects_ # NullPtr
    /\ Deref(stored_defects_) # << >>
    /\ stored_display_ =
          New(AnalysisOf[<<Deref(stored_gray_), nud_blur_,
                           nud_threshold_>>].display)
    /\ lbl_verdict_.verdict = "N"

\* C24: the display stage leaves the corrected image, the lens mask and the
\* defect list unchanged, the overlay is drawn on a colour copy of the
\* corrected image, and the label and the cards show the pass flag, the ratio
\* and the defect list that were computed before build_annotated_display
\* was called.
OverlayHasNoEffect ==
    [][(pc' = "display" /\ pc' # pc)
          => /\ UNCHANGED << stored_corrected_, stored_mask_, stored_defects_,
                             defect_mask, contours, lens_pixels,
                             defect_pixels, pass, ratio >>
             /\ Deref(stored_display_').order = "BGR"
             /\ Deref(stored_display_').base = Deref(stored_corrected_)
             /\ Len(Deref(stored_display_').marks)
                   = Len(Deref(stored_defects_))
             /\ lbl_verdict_' =
                   VerdictText(pass, Len(Deref(stored_defects_)), ratio)
             /\ Len(flp_defects_') = Len(Deref(stored_defects_))]_vars

\* the overlay of an analysis with a defect was drawn: the outline of the
\* lens and one circle lie on the copy, and the corrected image under it is
\* the one the defect was found in
OverlayHasNoEffectWitness ==
    /\ pc = "display"
    /\ stored_display_ # NullPtr
    /\ Len(Deref(stored_display_).marks) = 1
    /\ Len(Deref(stored_display_).outline) > 0
    /\ Deref(stored_display_).base = Deref(stored_corrected_)
    /\ detect_defects(Deref(stored_corrected_), Deref(stored_mask_),
                      nud_threshold_) = defect_mask
    /\ lbl_verdict_.defects = 1
    /\ pb_analyzed_ = New(mat_to_bitmap(Deref(stored_display_)))

====
